---- MODULE Spec2Model ----
(***************************************************************************)
(* Prehistoric Leap (src/main.py): the game controller, its entities and   *)
(* the best-score store, as a state machine.                               *)
(*                                                                         *)
(* One action per handler: Launch (Game.__init__), one action per input    *)
(* event handled by Game.handle_events (EvQuit, EvClick, EvSpace) and      *)
(* Update (one call of Game.update).  Game.run calls handle_events and     *)
(* then update once per frame; handle_events handles any number of events, *)
(* so the event actions interleave freely with Update.                     *)
(*                                                                         *)
(* Numbers: positions and velocities are Python floats.  Every level table *)
(* enumerated here gives gravity and the speeds as integers, so all float  *)
(* arithmetic of the program is exact on integer values and int(x) is the  *)
(* identity.  The three sine terms (start-screen bob, enemy wave, coin     *)
(* bob) are nondeterministic choices within their amplitude.  The          *)
(* background offset bg_x, sounds, fonts and drawing are left out.         *)
(***************************************************************************)
EXTENDS Integers, Sequences, FiniteSets, TLC

\* ---------------------------------------------------------------- constants
SCREEN_WIDTH == 800
SCREEN_HEIGHT == 600
PLAYER_W == 70
PLAYER_H == 70
PLAYER_X == 150
ENEMY_W == 70
ENEMY_H == 70
COIN_W == 32
COIN_H == 32
WALL_WIDTH == 72

FLAP_POWER == -6
MAX_FALL == 7
PLAYER_INSET == 8
ENEMY_INSET == 10
COIN_INSET == 4
WALL_MARGIN == 70
MIN_WALL_BODY == 10
GAP_FLOOR_MARGIN == 80
WALL_SPAWN_OFFSET == 40
OFF_SCREEN_X == -10
GRACE_FRAMES == 50
BOB_AMP == 18
COIN_BOB_AMP == 6
ENEMY_AMP_MAX == 55
ENEMY_X_MIN == 20
ENEMY_X_MAX == 120
ENEMY_Y_PAD == 40
COIN_X_JITTER == 20

\* lv.get(key, default): the defaults of Game.update and Game._level
DEFAULT_THRESHOLD == 999999
DEFAULT_GAP_SIZE == 200
DEFAULT_WALL_SPACING == 350
DEFAULT_ENEMY_FRAMES == 500
DEFAULT_COIN_CHANCE == 50
DEFAULT_MAX_COINS == 3
DEFAULT_COIN_SPEED_MULT == 1
DEFAULT_COIN_MIN_GAP == 100
DEFAULT_COIN_Y_PAD == 50
DEFAULT_COIN_VALUE == 1

\* Game.START, Game.PLAYING, Game.GAME_OVER
START == 0
PLAYING == 1
GAME_OVER == 2

\* ------------------------------------------------------------------ bounds
\* flap inputs accepted per round
MaxFlaps == 1
\* entries of a level table drawn as input of Game._level
MaxLevels == 3
\* largest score_threshold of such an entry
MaxThreshold == 2

\* ----------------------------------------------------------------- helpers
Min(a, b) == IF a < b THEN a ELSE b
Max(a, b) == IF a > b THEN a ELSE b

\* dict.get(key, default)
Get(d, k, default) == IF k \in DOMAIN d THEN d[k] ELSE default

\* pygame.Rect(x, y, w, h)
Rect(x, y, w, h) == [x |-> x, y |-> y, w |-> w, h |-> h]

\* pygame.Rect.colliderect
Colliderect(a, b) ==
    /\ a.x < b.x + b.w /\ b.x < a.x + a.w
    /\ a.y < b.y + b.h /\ b.y < a.y + a.h

\* pygame.Rect.collidepoint
Collidepoint(r, p) ==
    /\ r.x <= p[1] /\ p[1] < r.x + r.w
    /\ r.y <= p[2] /\ p[2] < r.y + r.h

\* ------------------------------------------------------------------ player
\* Player.__init__ / Player.reset: y = SCREEN_HEIGHT // 2 - PLAYER_H // 2
PlayerStartY == SCREEN_HEIGHT \div 2 - PLAYER_H \div 2

\* Player.reset (x is fixed, bob_t is the start-screen animation clock)
PlayerReset == [y |-> PlayerStartY, vel |-> 0, alive |-> TRUE]

\* Player.rect without the inset: the whole sprite
PlayerRectSprite(p) == Rect(PLAYER_X, p.y, PLAYER_W, PLAYER_H)

\* Player.rect: the sprite inset by 8 px on every side
PlayerRect(p) ==
    Rect(PLAYER_X + PLAYER_INSET, p.y + PLAYER_INSET,
         PLAYER_W - 2 * PLAYER_INSET, PLAYER_H - 2 * PLAYER_INSET)

\* Player.flap
PlayerFlap(p) == IF p.alive THEN [p EXCEPT !.vel = FLAP_POWER] ELSE p

\* Player.update with a floor that stops the player without killing
PlayerUpdateSoftFloor(p, gravity, grace) ==
    LET v1 == IF grace THEN 0 ELSE Min(p.vel + gravity, MAX_FALL)
        y1 == p.y + v1
        y2 == IF y1 < 0 THEN 0 ELSE y1
        v2 == IF y1 < 0 THEN 0 ELSE v1
    IN  [y |-> Min(y2, SCREEN_HEIGHT - PLAYER_H), vel |-> v2, alive |-> p.alive]

\* Player.update(gravity, grace)
PlayerUpdate(p, gravity, grace) ==
    LET v1 == IF grace THEN 0 ELSE Min(p.vel + gravity, MAX_FALL)
        y1 == p.y + v1
        y2 == IF y1 < 0 THEN 0 ELSE y1
        v2 == IF y1 < 0 THEN 0 ELSE v1
    IN  IF y2 > SCREEN_HEIGHT - PLAYER_H
        THEN [y |-> SCREEN_HEIGHT - PLAYER_H, vel |-> v2, alive |-> FALSE]
        ELSE [y |-> y2, vel |-> v2, alive |-> p.alive]

\* Player.bob: y = 265 + sin(bob_t) * 18; the sine term is any of these
BobOffsets == {-BOB_AMP, 0, BOB_AMP}

\* ------------------------------------------------------------------- walls
\* WallPair.__init__: the range random.randint(min_gy, max_gy) draws from
MinGapY(gap_size) == WALL_MARGIN + gap_size \div 2
MaxGapY(gap_size) == SCREEN_HEIGHT - WALL_MARGIN - gap_size \div 2

\* WallPair.__init__ with the gap centre drawn; id is the object's identity
\* (the number of pairs created before it in the round)
WallPair(id, x, gap_size, speed, gap_y) ==
    LET top_h == gap_y - gap_size \div 2
        bot_h == SCREEN_HEIGHT - (gap_y + gap_size \div 2)
    IN  [id |-> id, x |-> x, speed |-> speed, gap_size |-> gap_size,
         scored |-> FALSE, gap_y |-> gap_y,
         top_h |-> Max(MIN_WALL_BODY, top_h),
         bot_start |-> gap_y + gap_size \div 2]

\* WallPair.top_rect / WallPair.bot_rect
TopRect(w) == Rect(w.x, 0, WALL_WIDTH, w.top_h)
BotRect(w) == Rect(w.x, w.bot_start, WALL_WIDTH, SCREEN_HEIGHT - w.bot_start)

\* WallPair.collides testing the horizontal extent only
WallCollidesOnX(w, prect) ==
    TopRect(w).x < prect.x + prect.w /\ prect.x < TopRect(w).x + TopRect(w).w

\* WallPair.collides
WallCollides(w, prect) ==
    Colliderect(TopRect(w), prect) \/ Colliderect(BotRect(w), prect)

\* WallPair.off_screen true as soon as the wall has reached the player
WallOffScreenAtPlayer(w) == w.x < PLAYER_X + PLAYER_W

\* WallPair.off_screen
WallOffScreen(w) == w.x + WALL_WIDTH < OFF_SCREEN_X

\* WallPair.update
WallMove(w) == [w EXCEPT !.x = @ - w.speed]

\* the scoring condition without "not w.scored"
WallScoresAgain(w) == w.x + WALL_WIDTH < PLAYER_X

\* Game.update: "if not w.scored and w.x + WALL_WIDTH < self.player.x"
WallScores(w) == ~w.scored /\ w.x + WALL_WIDTH < PLAYER_X

\* Game.update: gap_size = max(lv.get("gap_size", 200), PLAYER_H + 80)
ClampGap(lv) == Max(Get(lv, "gap_size", DEFAULT_GAP_SIZE), PLAYER_H + GAP_FLOOR_MARGIN)

\* Game.update: the spawn condition of the wall phase
WallSpawnDue(ws, lv) ==
    \/ ws = << >>
    \/ ws[Len(ws)].x < SCREEN_WIDTH - Get(lv, "wall_spacing", DEFAULT_WALL_SPACING)

\* ----------------------------------------------------------------- enemies
\* Enemy.__init__: x = SCREEN_WIDTH + randint(20, 120), y = base_y
Enemy(speed, xoff, base_y) ==
    [x |-> SCREEN_WIDTH + xoff, base_y |-> base_y, y |-> base_y, speed |-> speed]

\* Enemy.rect
EnemyRect(e) ==
    Rect(e.x + ENEMY_INSET, e.y + ENEMY_INSET,
         ENEMY_W - 2 * ENEMY_INSET, ENEMY_H - 2 * ENEMY_INSET)

\* Enemy.update: y = base_y + sin(wave_t) * wave_amp, the sine term drawn
EnemyMove(e, wave) == [e EXCEPT !.x = @ - e.speed, !.y = e.base_y + wave]

\* Enemy.off_screen
EnemyOffScreen(e) == e.x + ENEMY_W < OFF_SCREEN_X

\* Enemy.collides
EnemyCollides(e, prect) == Colliderect(EnemyRect(e), prect)

\* ------------------------------------------------------------------- coins
\* Coin.__init__; id is the object's identity and born the level index in
\* force when it was created (the object holds neither)
Coin(id, born, x, y, speed) ==
    [id |-> id, born |-> born, x |-> x, base_y |-> y, y |-> y, speed |-> speed]

\* Coin.rect
CoinRect(c) ==
    Rect(c.x + COIN_INSET, c.y + COIN_INSET,
         COIN_W - 2 * COIN_INSET, COIN_H - 2 * COIN_INSET)

\* Coin.update: y = base_y + sin(bob_t) * 6, the sine term drawn
CoinMove(c, bob) == [c EXCEPT !.x = @ - c.speed, !.y = c.base_y + bob]

\* Coin.off_screen
CoinOffScreen(c) == c.x + COIN_W < OFF_SCREEN_X

\* Coin.collides
CoinCollides(c, prect) == Colliderect(CoinRect(c), prect)

\* Game.update: where the coin of a freshly spawned wall is put
CoinX(latest, lv, jitter) ==
    LET space == Get(lv, "wall_spacing", DEFAULT_WALL_SPACING) + WALL_SPAWN_OFFSET - WALL_WIDTH
        cx == latest.x + WALL_WIDTH + space \div 2 - COIN_W \div 2 + jitter
    IN  Max(cx, latest.x + WALL_WIDTH + Get(lv, "coin_min_gap_from_walls_px", DEFAULT_COIN_MIN_GAP))

CoinY(latest, lv, jitter) ==
    LET y_pad == Get(lv, "coin_y_padding_px", DEFAULT_COIN_Y_PAD)
        cy == latest.gap_y + jitter - COIN_H \div 2
    IN  Max(y_pad, Min(SCREEN_HEIGHT - y_pad - COIN_H, cy))

\* ------------------------------------------------------------------ levels
\* A level table is a sequence of entries; an entry is a function from the
\* keys it has to their values, and the entry of Python's index i is lvs[i + 1].
\* Game._level, the for loop from Python index i on: the index it leaves in
\* level_idx, the first entry whose threshold the score is below and
\* len(levels) - 1 when there is none
\* the scan of Game._level with "<=" for "<"
RECURSIVE LevelScanInclusive(_, _, _)
LevelScanInclusive(lvs, sc, i) ==
    IF i >= Len(lvs) THEN Len(lvs) - 1
    ELSE IF sc <= Get(lvs[i + 1], "score_threshold", DEFAULT_THRESHOLD) THEN i
    ELSE LevelScanInclusive(lvs, sc, i + 1)

\* the scan of Game._level with the comparison turned round
RECURSIVE LevelScanReversed(_, _, _)
LevelScanReversed(lvs, sc, i) ==
    IF i >= Len(lvs) THEN Len(lvs) - 1
    ELSE IF sc > Get(lvs[i + 1], "score_threshold", DEFAULT_THRESHOLD) THEN i
    ELSE LevelScanReversed(lvs, sc, i + 1)

RECURSIVE LevelScan(_, _, _)
LevelScan(lvs, sc, i) ==
    IF i >= Len(lvs) THEN Len(lvs) - 1
    ELSE IF sc < Get(lvs[i + 1], "score_threshold", DEFAULT_THRESHOLD) THEN i
    ELSE LevelScan(lvs, sc, i + 1)

\* Game._level: level_idx after the call
LevelIndex(lvs, sc) == LevelScan(lvs, sc, 0)

\* -------------------------------------------------------- best-score store
\* load_highscore on the file's content: a missing file and a content that
\* is not JSON give 0, a JSON object gives its "high_score" or 0
LoadHighscore(f) ==
    IF f.kind = "record" THEN f.high_score ELSE 0

\* load_highscore raises: open fails with an OSError other than
\* FileNotFoundError (nothing catches PermissionError), or the JSON in the
\* file is not an object and has no get (AttributeError)
LoadRaises(f) == f.kind \in {"unreadable", "notobject"}

\* open(HIGHSCORE_FILE, "w") raises: the file, or the directory of a file
\* that is not there yet, cannot be written
WriteRaises(f) == "locked" \in DOMAIN f

\* save_highscore writing whatever score it is given
SaveHighscoreAlways(f, sc) == [kind |-> "record", high_score |-> sc]

\* save_highscore: the file after the call
SaveHighscore(f, sc) ==
    IF sc > LoadHighscore(f) THEN [kind |-> "record", high_score |-> sc] ELSE f

\* save_highscore returning False whatever it wrote
SaveBeatsNever(f, sc) == FALSE

\* save_highscore's return value
SaveBeats(f, sc) == sc > LoadHighscore(f)

\* save_highscore raises: in its load_highscore, or in the write it decides on
SaveRaises(f, sc) == LoadRaises(f) \/ (sc > LoadHighscore(f) /\ WriteRaises(f))

\* ------------------------------------------------------------------- state
VARIABLES
    proc,            \* the process: "off", "running", "exited" (sys.exit), "crashed"
    cfg,             \* levels.json
    hsfile,          \* highscore.json
    levels,          \* Game.levels
    high_score,      \* Game.high_score
    state,           \* Game.state
    player,          \* Game.player: y, vel, alive
    walls,           \* Game.walls
    enemies,         \* Game.enemies
    coins,           \* Game.coins
    score,           \* Game.score
    coins_collected, \* Game.coins_collected
    grace_frames,    \* Game.grace_frames
    enemy_timer,     \* Game.enemy_timer
    level_idx,       \* Game.level_idx
    made,            \* WallPair and Coin objects created in this round
                     \* (identities), and its PLAYING frames so far
    flaps,           \* flap inputs taken in this round
    last,            \* the last operation and what it did
    probe            \* input and result of a function exercised on drawn inputs

vars == << proc, cfg, hsfile, levels, high_score, state, player, walls, enemies,
           coins, score, coins_collected, grace_frames, enemy_timer, level_idx,
           made, flaps, last, probe >>

game == << state, player, walls, enemies, coins, score, coins_collected,
           grace_frames, enemy_timer, level_idx, made, flaps >>

\* the PLAYING frames of a round are counted up to the one after the grace
\* period
FrameCount(n) == Min(n + 1, GRACE_FRAMES + 1)

\* what `last` records of an operation: its name, its outcome, and for an
\* update of a PLAYING frame what the phases created and the coins picked up
\* (as they were after their move)
Did(op, res) ==
    [op |-> op, res |-> res, wall |-> FALSE, enemy |-> FALSE, coin |-> FALSE,
     picked |-> << >>]

NoProbe == [fn |-> "none"]

\* ------------------------------------------------------------------ inputs
\* levels.json as the runs below find it.  Every entry gives gravity and the
\* speeds as integers; the other keys are present or left to their defaults.
\* TableSlow: the walls are too slow to reach the player, who hovers through
\* the grace period and falls at the full speed.  TableFloat: no gravity, so one flap carries
\* the player to the ceiling.  TableWalls: fast walls and enemies, a wide gap
\* before the first point and the narrowest one after it.  TableCoins: fast
\* walls and coins, created in the first level only, whose value
\* changes with the level.
TableSlow ==
    << [gravity |-> 7, wall_speed |-> 4, enemy_speed |-> 4,
        coin_spawn_chance |-> 0] >>

TableFloat ==
    << [gravity |-> 0, wall_speed |-> 20, enemy_speed |-> 20,
        coin_spawn_chance |-> 0] >>

TableWalls ==
    << [name |-> "one", score_threshold |-> 1, gravity |-> 1, wall_speed |-> 100,
        gap_size |-> 400, wall_spacing |-> 400, enemy_speed |-> 100,
        enemy_spawn_frames |-> 10, coin_spawn_chance |-> 0],
       [score_threshold |-> 2, gravity |-> 2, wall_speed |-> 100,
        gap_size |-> 100, wall_spacing |-> 400, enemy_speed |-> 100,
        enemy_spawn_frames |-> 10, coin_spawn_chance |-> 0],
       [gravity |-> 3, wall_speed |-> 100, gap_size |-> 100,
        wall_spacing |-> 400, enemy_speed |-> 100, enemy_spawn_frames |-> 10,
        coin_spawn_chance |-> 0] >>

TableCoins ==
    << [score_threshold |-> 1, gravity |-> 1, wall_speed |-> 100,
        gap_size |-> 400, wall_spacing |-> 400, enemy_speed |-> 100,
        max_coins_on_screen |-> 1, coin_value |-> 2],
       [gravity |-> 2, wall_speed |-> 100, gap_size |-> 150,
        wall_spacing |-> 400, enemy_speed |-> 100, coin_spawn_chance |-> 0,
        max_coins_on_screen |-> 2, coin_value |-> 5] >>

Configs ==
    { [kind |-> "ok", levels |-> TableSlow],
      [kind |-> "ok", levels |-> TableFloat],
      [kind |-> "ok", levels |-> TableWalls],
      [kind |-> "ok", levels |-> TableCoins],
      [kind |-> "ok", levels |-> << >>],
      [kind |-> "absent"], [kind |-> "garbage"], [kind |-> "nolevels"] }

\* highscore.json as the first launch finds it
StoreFiles ==
    { [kind |-> "absent"], [kind |-> "garbage"], [kind |-> "unreadable"],
      [kind |-> "record", high_score |-> 1],
      [kind |-> "record", high_score |-> 3] }

\* the points a click lands on: in the start button only, in both buttons,
\* in the restart button only, in neither
ClickPoints == { <<400, 430>>, <<400, 395>>, <<400, 360>>, <<10, 10>> }

\* the draws of random.randint(min_gy, max_gy) followed here
GapChoices(gap_size) ==
    IF MinGapY(gap_size) > MaxGapY(gap_size) THEN {}
    ELSE { MinGapY(gap_size), MaxGapY(gap_size) }

\* the draws of Enemy.__init__ followed here, and the values of its sine term
EnemyXOffsets == { ENEMY_X_MIN, ENEMY_X_MAX }
EnemyBaseYs == { ENEMY_Y_PAD, PlayerStartY }
WaveOffsets == { 0, ENEMY_AMP_MAX }

\* the draws of the coin placement followed here, and the values of the sine term
CoinXJitters == { COIN_X_JITTER }
CoinYJitters(gap_size) == { 0, gap_size \div 3 }
CoinBobs == { 0, COIN_BOB_AMP }

\* random.random() < coin_chance, the chance in percent
CoinDraws(lv) ==
    LET chance == Get(lv, "coin_spawn_chance", DEFAULT_COIN_CHANCE)
    IN  IF chance <= 0 THEN {FALSE} ELSE IF chance >= 100 THEN {TRUE} ELSE BOOLEAN

\* Button.__init__: Button(cx, cy, w, h, ...).rect
ButtonRect(cx, cy, w, h) == Rect(cx - w \div 2, cy - h \div 2, w, h)
BtnStart == ButtonRect(SCREEN_WIDTH \div 2, 410, 210, 55)
BtnRestart == ButtonRect(SCREEN_WIDTH \div 2, SCREEN_HEIGHT \div 2 + 80, 220, 55)

\* ------------------------------------------------- the loops of Game.update
\* "for w in self.walls[:]" from position i on: kept holds the walls handled
\* and not removed.  A collision returns at once: the wall hit stays, moved,
\* and the walls after it are not touched.
RECURSIVE WallLoop(_, _, _, _, _)
WallLoop(ws, i, kept, sc, prect) ==
    IF i > Len(ws) THEN [walls |-> kept, score |-> sc, hit |-> FALSE]
    ELSE LET moved == WallMove(ws[i])
             pass == WallScores(moved)
             w == IF pass THEN [moved EXCEPT !.scored = TRUE] ELSE moved
             sc1 == IF pass THEN sc + 1 ELSE sc
         IN  IF WallCollides(w, prect)
             THEN [walls |-> kept \o << w >> \o SubSeq(ws, i + 1, Len(ws)),
                   score |-> sc1, hit |-> TRUE]
             ELSE IF WallOffScreen(w)
             THEN WallLoop(ws, i + 1, kept, sc1, prect)
             ELSE WallLoop(ws, i + 1, Append(kept, w), sc1, prect)

\* "for e in self.enemies[:]" from position i on; waves[i] is the sine term
\* of enemy i in this frame
RECURSIVE EnemyLoop(_, _, _, _, _)
EnemyLoop(es, i, kept, waves, prect) ==
    IF i > Len(es) THEN [enemies |-> kept, hit |-> FALSE]
    ELSE LET e == EnemyMove(es[i], waves[i])
         IN  IF EnemyCollides(e, prect)
             THEN [enemies |-> kept \o << e >> \o SubSeq(es, i + 1, Len(es)),
                   hit |-> TRUE]
             ELSE IF EnemyOffScreen(e)
             THEN EnemyLoop(es, i + 1, kept, waves, prect)
             ELSE EnemyLoop(es, i + 1, Append(kept, e), waves, prect)

\* the credit of one pickup: "self.coins_collected += coin_value"
CoinCredit(cc, value) == cc + value

\* "for c in self.coins[:]" from position i on; bobs[i] is the sine term of
\* coin i in this frame, picked the coins picked up so far
RECURSIVE CoinLoop(_, _, _, _, _, _, _, _)
CoinLoop(cs, i, kept, bobs, prect, value, cc, picked) ==
    IF i > Len(cs) THEN [coins |-> kept, collected |-> cc, picked |-> picked]
    ELSE LET c == CoinMove(cs[i], bobs[i])
         IN  IF CoinCollides(c, prect)
             THEN CoinLoop(cs, i + 1, kept, bobs, prect, value,
                           CoinCredit(cc, value), Append(picked, c))
             ELSE IF CoinOffScreen(c)
             THEN CoinLoop(cs, i + 1, kept, bobs, prect, value, cc, picked)
             ELSE CoinLoop(cs, i + 1, Append(kept, c), bobs, prect, value, cc, picked)

\* ------------------------------------------------------------------- steps
\* the fields of the Game object and what an operation records of itself
Commit(st, p, ws, es, cs, sc, cc, gf, et, li, mk, fl, la) ==
    /\ state' = st
    /\ player' = p
    /\ walls' = ws
    /\ enemies' = es
    /\ coins' = cs
    /\ score' = sc
    /\ coins_collected' = cc
    /\ grace_frames' = gf
    /\ enemy_timer' = et
    /\ level_idx' = li
    /\ made' = mk
    /\ flaps' = fl
    /\ last' = la

\* an exception nothing catches ends the process
Crash(op) ==
    /\ proc' = "crashed"
    /\ last' = Did(op, "crash")
    /\ UNCHANGED << cfg, hsfile, levels, high_score, game, probe >>

\* Game.__init__, "Game state": the fields of a new Game object
NewGame(la) ==
    Commit(START, PlayerReset, << >>, << >>, << >>, 0, 0, 0, 0, 0,
           [walls |-> 0, coins |-> 0, frames |-> 0], 0, la)

\* Game._start_game without "self.coins_collected = 0"
StartGameKeepsBonus(op) ==
    /\ Commit(PLAYING, PlayerReset, << >>, << >>, << >>, 0, coins_collected,
              GRACE_FRAMES, 0, 0, [walls |-> 0, coins |-> 0, frames |-> 0], 0,
              Did(op, IF state = START THEN "start" ELSE "restart"))
    /\ UNCHANGED << proc, cfg, hsfile, levels, high_score, probe >>

\* Game._start_game, called on the start screen ("start") or on the
\* game-over screen ("restart")
StartGame(op) ==
    /\ Commit(PLAYING, PlayerReset, << >>, << >>, << >>, 0, 0, GRACE_FRAMES, 0, 0,
              [walls |-> 0, coins |-> 0, frames |-> 0], 0,
              Did(op, IF state = START THEN "start" ELSE "restart"))
    /\ UNCHANGED << proc, cfg, hsfile, levels, high_score, probe >>

\* Game._game_over without "self.player.alive = False"
GameOverKeepsAlive(p, ws, es, cs, sc, cc, gf, et, li, mk, la) ==
    IF SaveRaises(hsfile, sc)
    THEN Crash(la.op)
    ELSE /\ Commit(GAME_OVER, p, ws, es, cs, sc, cc, gf, et, li, mk, flaps, la)
         /\ hsfile' = SaveHighscore(hsfile, sc)
         /\ high_score' = IF SaveBeats(hsfile, sc) THEN sc ELSE high_score
         /\ UNCHANGED << proc, cfg, levels, probe >>

\* Game._game_over, entered from Game.update with the frame's values so far
GameOver(p, ws, es, cs, sc, cc, gf, et, li, mk, la) ==
    IF SaveRaises(hsfile, sc)
    THEN Crash(la.op)
    ELSE /\ Commit(GAME_OVER, [p EXCEPT !.alive = FALSE], ws, es, cs, sc, cc, gf,
                   et, li, mk, flaps, la)
         /\ hsfile' = SaveHighscore(hsfile, sc)
         /\ high_score' = IF SaveBeats(hsfile, sc) THEN sc ELSE high_score
         /\ UNCHANGED << proc, cfg, levels, probe >>

\* the flap branch of Game.handle_events leaving the grace counter alone
FlapKeepsGrace(op) ==
    /\ flaps < MaxFlaps
    /\ player' = PlayerFlap(player)
    /\ flaps' = flaps + 1
    /\ last' = Did(op, "flap")
    /\ UNCHANGED << proc, cfg, hsfile, levels, high_score, state, walls, enemies,
                    coins, score, coins_collected, grace_frames, enemy_timer,
                    level_idx, made, probe >>

\* the flap branch of Game.handle_events: Player.flap, and the first flap
\* cancels the grace hover
Flap(op) ==
    /\ flaps < MaxFlaps
    /\ player' = PlayerFlap(player)
    /\ grace_frames' = IF grace_frames > 0 THEN 0 ELSE grace_frames
    /\ flaps' = flaps + 1
    /\ last' = Did(op, "flap")
    /\ UNCHANGED << proc, cfg, hsfile, levels, high_score, state, walls, enemies,
                    coins, score, coins_collected, enemy_timer, level_idx, made,
                    probe >>

\* Game.__init__: load_levels, cfg["levels"], load_highscore, the game state
Launch ==
    /\ proc # "running"
    /\ IF cfg.kind # "ok" \/ LoadRaises(hsfile)
       THEN Crash("launch")
       ELSE /\ proc' = "running"
            /\ levels' = cfg.levels
            /\ high_score' = LoadHighscore(hsfile)
            /\ NewGame(Did("launch", "ok"))
            /\ UNCHANGED << cfg, hsfile, probe >>

\* Game._quit saving the best score known in memory only
EvQuitSavesRecordOnly ==
    /\ proc = "running"
    /\ IF SaveRaises(hsfile, high_score)
       THEN Crash("quit")
       ELSE /\ proc' = "exited"
            /\ hsfile' = SaveHighscore(hsfile, high_score)
            /\ Commit(state, PlayerReset, << >>, << >>, << >>, score, 0, 0, 0, 0,
                      [walls |-> 0, coins |-> 0, frames |-> 0], 0, Did("quit", "exit"))
            /\ UNCHANGED << cfg, levels, high_score, probe >>

\* Game.handle_events on pygame.QUIT: Game._quit.  sys.exit ends the process
\* and the Game object with it: state, score and high_score stay as they were
\* at the quit, for reference, and the rest of the object is cleared.
EvQuit ==
    /\ proc = "running"
    /\ IF SaveRaises(hsfile, Max(score, high_score))
       THEN Crash("quit")
       ELSE /\ proc' = "exited"
            /\ hsfile' = SaveHighscore(hsfile, Max(score, high_score))
            /\ Commit(state, PlayerReset, << >>, << >>, << >>, score, 0, 0, 0, 0,
                      [walls |-> 0, coins |-> 0, frames |-> 0], 0, Did("quit", "exit"))
            /\ UNCHANGED << cfg, levels, high_score, probe >>

\* Game.handle_events on MOUSEBUTTONDOWN, button 1, at pos
EvClick(pos) ==
    /\ proc = "running"
    /\ CASE state = START ->
              IF Collidepoint(BtnStart, pos) THEN StartGame("click")
              ELSE UNCHANGED vars
         [] state = PLAYING -> Flap("click")
         [] state = GAME_OVER ->
              IF Collidepoint(BtnRestart, pos) THEN StartGame("click")
              ELSE UNCHANGED vars

\* Game.handle_events with K_SPACE starting the game on the start screen too
EvSpaceStarts ==
    /\ proc = "running"
    /\ CASE state = START -> StartGame("space")
         [] state = PLAYING -> Flap("space")
         [] state = GAME_OVER -> StartGame("space")

\* Game.handle_events on KEYDOWN, K_SPACE
EvSpace ==
    /\ proc = "running"
    /\ CASE state = START -> UNCHANGED vars
         [] state = PLAYING -> Flap("space")
         [] state = GAME_OVER -> StartGame("space")

\* the coin phase spawning whatever the number of coins on screen
CoinPhaseUncapped(li, lv, gf, p, w, due, es, et, espawn) ==
    \E draw \in (IF due THEN CoinDraws(lv) ELSE {FALSE}) :
      LET spawn == draw
      IN  IF spawn /\ w.walls = << >>
          THEN Crash("update")
          ELSE
          LET latest == w.walls[Len(w.walls)]
          IN  \E xj \in (IF spawn THEN CoinXJitters ELSE {0}),
                 yj \in (IF spawn THEN CoinYJitters(latest.gap_size) ELSE {0}) :
                LET speed == lv.wall_speed * Get(lv, "coin_speed_multiplier", DEFAULT_COIN_SPEED_MULT)
                    cs1 == IF spawn
                           THEN Append(coins, Coin(made.coins, li, CoinX(latest, lv, xj),
                                                   CoinY(latest, lv, yj), speed))
                           ELSE coins
                    mk == [walls |-> made.walls + (IF due THEN 1 ELSE 0),
                           coins |-> made.coins + (IF spawn THEN 1 ELSE 0),
                           frames |-> FrameCount(made.frames)]
                IN  \E bobs \in [1..Len(cs1) -> CoinBobs] :
                      LET c == CoinLoop(cs1, 1, << >>, bobs, PlayerRect(p),
                                        Get(lv, "coin_value", DEFAULT_COIN_VALUE),
                                        coins_collected, << >>)
                      IN  /\ Commit(PLAYING, p, w.walls, es, c.coins, w.score,
                                    c.collected, gf, et, li, mk, flaps,
                                    [op |-> "update", res |-> "ok", wall |-> due,
                                     enemy |-> espawn, coin |-> spawn,
                                     picked |-> c.picked])
                          /\ UNCHANGED << proc, cfg, hsfile, levels, high_score, probe >>

\* Game.update, PLAYING, "Coin spawning" and "Coin update": the last phase.
\* li, lv: the frame's level; gf, p: grace counter and player after the
\* physics step; w: the wall phase's result; due: wall_just_spawned;
\* es, et, espawn: the enemy phase's result.
CoinPhase(li, lv, gf, p, w, due, es, et, espawn) ==
    \E draw \in (IF due THEN CoinDraws(lv) ELSE {FALSE}) :
      LET spawn == draw /\ Len(coins) < Get(lv, "max_coins_on_screen", DEFAULT_MAX_COINS)
      IN  IF spawn /\ w.walls = << >>
          THEN Crash("update")      \* self.walls[-1] raises IndexError
          ELSE
          LET latest == w.walls[Len(w.walls)]
          IN  \E xj \in (IF spawn THEN CoinXJitters ELSE {0}),
                 yj \in (IF spawn THEN CoinYJitters(latest.gap_size) ELSE {0}) :
                LET speed == lv.wall_speed * Get(lv, "coin_speed_multiplier", DEFAULT_COIN_SPEED_MULT)
                    cs1 == IF spawn
                           THEN Append(coins, Coin(made.coins, li, CoinX(latest, lv, xj),
                                                   CoinY(latest, lv, yj), speed))
                           ELSE coins
                    mk == [walls |-> made.walls + (IF due THEN 1 ELSE 0),
                           coins |-> made.coins + (IF spawn THEN 1 ELSE 0),
                           frames |-> FrameCount(made.frames)]
                IN  \E bobs \in [1..Len(cs1) -> CoinBobs] :
                      LET c == CoinLoop(cs1, 1, << >>, bobs, PlayerRect(p),
                                        Get(lv, "coin_value", DEFAULT_COIN_VALUE),
                                        coins_collected, << >>)
                      IN  /\ Commit(PLAYING, p, w.walls, es, c.coins, w.score,
                                    c.collected, gf, et, li, mk, flaps,
                                    [op |-> "update", res |-> "ok", wall |-> due,
                                     enemy |-> espawn, coin |-> spawn,
                                     picked |-> c.picked])
                          /\ UNCHANGED << proc, cfg, hsfile, levels, high_score, probe >>

\* the enemy phase spawning once the timer has passed the interval
EnemyPhaseLate(li, lv, gf, p, w, due) ==
    LET et1 == enemy_timer + 1
        spawn == et1 > Get(lv, "enemy_spawn_frames", DEFAULT_ENEMY_FRAMES)
        et == IF spawn THEN 0 ELSE et1
        mk == [made EXCEPT !.walls = @ + (IF due THEN 1 ELSE 0),
                           !.frames = FrameCount(@)]
    IN  \E xo \in (IF spawn THEN EnemyXOffsets ELSE {0}),
           by \in (IF spawn THEN EnemyBaseYs ELSE {0}) :
          LET es1 == IF spawn THEN Append(enemies, Enemy(lv.enemy_speed, xo, by))
                     ELSE enemies
          IN  \E waves \in [1..Len(es1) -> WaveOffsets] :
                LET e == EnemyLoop(es1, 1, << >>, waves, PlayerRect(p))
                IN  IF e.hit
                    THEN GameOver(p, w.walls, e.enemies, coins, w.score,
                                  coins_collected, gf, et, li, mk,
                                  [op |-> "update", res |-> "enemy", wall |-> due,
                                   enemy |-> spawn, coin |-> FALSE, picked |-> << >>])
                    ELSE CoinPhase(li, lv, gf, p, w, due, e.enemies, et, spawn)

\* Game.update, PLAYING, "Enemy spawning" and "Enemy update"
EnemyPhase(li, lv, gf, p, w, due) ==
    LET et1 == enemy_timer + 1
        spawn == et1 >= Get(lv, "enemy_spawn_frames", DEFAULT_ENEMY_FRAMES)
        et == IF spawn THEN 0 ELSE et1
        mk == [made EXCEPT !.walls = @ + (IF due THEN 1 ELSE 0),
                           !.frames = FrameCount(@)]
    IN  \E xo \in (IF spawn THEN EnemyXOffsets ELSE {0}),
           by \in (IF spawn THEN EnemyBaseYs ELSE {0}) :
          LET es1 == IF spawn THEN Append(enemies, Enemy(lv.enemy_speed, xo, by))
                     ELSE enemies
          IN  \E waves \in [1..Len(es1) -> WaveOffsets] :
                LET e == EnemyLoop(es1, 1, << >>, waves, PlayerRect(p))
                IN  IF e.hit
                    THEN GameOver(p, w.walls, e.enemies, coins, w.score,
                                  coins_collected, gf, et, li, mk,
                                  [op |-> "update", res |-> "enemy", wall |-> due,
                                   enemy |-> spawn, coin |-> FALSE, picked |-> << >>])
                    ELSE CoinPhase(li, lv, gf, p, w, due, e.enemies, et, spawn)

\* the wall phase with the enemy timer advanced before the wall loop
WallPhaseTimerFirst(li, lv, gf, p) ==
    LET gap_size == ClampGap(lv)
        due == WallSpawnDue(walls, lv)
    IN  IF due /\ GapChoices(gap_size) = {}
        THEN Crash("update")
        ELSE \E gap_y \in (IF due THEN GapChoices(gap_size) ELSE {0}) :
               LET ws1 == IF due
                          THEN Append(walls, WallPair(made.walls, SCREEN_WIDTH + WALL_SPAWN_OFFSET,
                                                      gap_size, lv.wall_speed, gap_y))
                          ELSE walls
                   w == WallLoop(ws1, 1, << >>, score, PlayerRect(p))
               IN  IF w.hit
                   THEN GameOver(p, w.walls, enemies, coins, w.score,
                                 coins_collected, gf, enemy_timer + 1, li,
                                 [made EXCEPT !.walls = @ + (IF due THEN 1 ELSE 0),
                                              !.frames = FrameCount(@)],
                                 [op |-> "update", res |-> "wall", wall |-> due,
                                  enemy |-> FALSE, coin |-> FALSE, picked |-> << >>])
                   ELSE EnemyPhase(li, lv, gf, p, w, due)

\* Game.update, PLAYING, "Wall spawning" and "Wall update"
WallPhase(li, lv, gf, p) ==
    LET gap_size == ClampGap(lv)
        due == WallSpawnDue(walls, lv)
    IN  IF due /\ GapChoices(gap_size) = {}
        THEN Crash("update")        \* random.randint raises ValueError
        ELSE \E gap_y \in (IF due THEN GapChoices(gap_size) ELSE {0}) :
               LET ws1 == IF due
                          THEN Append(walls, WallPair(made.walls, SCREEN_WIDTH + WALL_SPAWN_OFFSET,
                                                      gap_size, lv.wall_speed, gap_y))
                          ELSE walls
                   w == WallLoop(ws1, 1, << >>, score, PlayerRect(p))
               IN  IF w.hit
                   THEN GameOver(p, w.walls, enemies, coins, w.score,
                                 coins_collected, gf, enemy_timer, li,
                                 [made EXCEPT !.walls = @ + (IF due THEN 1 ELSE 0),
                                              !.frames = FrameCount(@)],
                                 [op |-> "update", res |-> "wall", wall |-> due,
                                  enemy |-> FALSE, coin |-> FALSE, picked |-> << >>])
                   ELSE EnemyPhase(li, lv, gf, p, w, due)

\* Game.update, PLAYING, returning before the physics step: the round stands
\* still
UpdatePlayingPaused ==
    /\ last' = Did("update", "paused")
    /\ UNCHANGED << proc, cfg, hsfile, levels, high_score, game, probe >>

\* Game.update, PLAYING, with the level looked up in the frame before
UpdatePlayingCached ==
    IF levels = << >>
    THEN Crash("update")
    ELSE LET li == level_idx
             lv == levels[li + 1]
             grace == grace_frames > 0
             gf == IF grace THEN grace_frames - 1 ELSE grace_frames
             p == PlayerUpdate(player, lv.gravity, grace)
         IN  IF ~p.alive
             THEN GameOver(p, walls, enemies, coins, score, coins_collected, gf,
                           enemy_timer, LevelIndex(levels, score),
                           [made EXCEPT !.frames = FrameCount(@)],
                           Did("update", "floor"))
             ELSE WallPhase(LevelIndex(levels, score), lv, gf, p)

\* Game.update, PLAYING: the level, the grace counter and the physics step
UpdatePlaying ==
    IF levels = << >>
    THEN Crash("update")            \* self.levels[-1] raises IndexError
    ELSE LET li == LevelIndex(levels, score)
             lv == levels[li + 1]
             grace == grace_frames > 0
             gf == IF grace THEN grace_frames - 1 ELSE grace_frames
             p == PlayerUpdate(player, lv.gravity, grace)
         IN  IF ~p.alive
             THEN GameOver(p, walls, enemies, coins, score, coins_collected, gf,
                           enemy_timer, li, [made EXCEPT !.frames = FrameCount(@)],
                           Did("update", "floor"))
             ELSE WallPhase(li, lv, gf, p)

\* Game.update, START: Player.bob
UpdateStart ==
    \E off \in BobOffsets :
      /\ player' = [player EXCEPT !.y = PlayerStartY + off]
      /\ last' = Did("update", "bob")
      /\ UNCHANGED << proc, cfg, hsfile, levels, high_score, state, walls, enemies,
                      coins, score, coins_collected, grace_frames, enemy_timer,
                      level_idx, made, flaps, probe >>

\* Game.update, GAME_OVER, with the walls scrolling on
UpdateGameOverScrolls ==
    /\ last' = Did("update", "frozen")
    /\ walls' = [i \in 1..Len(walls) |-> WallMove(walls[i])]
    /\ UNCHANGED << proc, cfg, hsfile, levels, high_score, state, player, enemies,
                    coins, score, coins_collected, grace_frames, enemy_timer,
                    level_idx, made, flaps, probe >>

\* Game.update, GAME_OVER: only the restart button and the background move
UpdateGameOver ==
    /\ last' = Did("update", "frozen")
    /\ UNCHANGED << proc, cfg, hsfile, levels, high_score, game, probe >>

\* Game.update
Update ==
    /\ proc = "running"
    /\ CASE state = START -> UpdateStart
         [] state = PLAYING -> UpdatePlaying
         [] state = GAME_OVER -> UpdateGameOver

\* ------------------------------------------------------------ specification
Init ==
    /\ proc = "off"
    /\ cfg \in Configs
    /\ hsfile \in StoreFiles
    /\ levels = << >>
    /\ high_score = 0
    /\ state = START
    /\ player = PlayerReset
    /\ walls = << >>
    /\ enemies = << >>
    /\ coins = << >>
    /\ score = 0
    /\ coins_collected = 0
    /\ grace_frames = 0
    /\ enemy_timer = 0
    /\ level_idx = 0
    /\ made = [walls |-> 0, coins |-> 0, frames |-> 0]
    /\ flaps = 0
    /\ last = Did("none", "none")
    /\ probe = NoProbe

Next ==
    \/ Launch
    \/ EvQuit
    \/ \E pos \in ClickPoints : EvClick(pos)
    \/ EvSpace
    \/ Update

Spec == Init /\ [][Next]_vars

\* --------------------------------------- wall generation on its own inputs
\* the Game object before launch, for the specifications that exercise one
\* function on drawn inputs
Idle ==
    /\ proc = "off"
    /\ cfg = [kind |-> "absent"]
    /\ hsfile = [kind |-> "absent"]
    /\ levels = << >>
    /\ high_score = 0
    /\ state = START
    /\ player = PlayerReset
    /\ walls = << >>
    /\ enemies = << >>
    /\ coins = << >>
    /\ score = 0
    /\ coins_collected = 0
    /\ grace_frames = 0
    /\ enemy_timer = 0
    /\ level_idx = 0
    /\ made = [walls |-> 0, coins |-> 0, frames |-> 0]
    /\ flaps = 0
    /\ last = Did("none", "none")

\* the level entries whose wall spawn is followed: no gap_size (the default),
\* sizes under the floor of 150, even and odd sizes, and the sizes around 460
\* where the range of the gap centre closes
GapLevels ==
    { [wall_speed |-> 3] } \cup
    { [wall_speed |-> 3, gap_size |-> g] :
        g \in {100, 149, 150, 151, 200, 201, 300, 459, 460, 461, 462, 463} }

InitGap ==
    /\ Idle
    /\ probe \in { [fn |-> "gap", lv |-> lv, res |-> "input", wall |-> << >>] :
                     lv \in GapLevels }

\* Game.update, "Wall spawning": WallPair(SCREEN_WIDTH + 40, gap_size,
\* wall_speed) with the clamped gap size, for every centre
\* random.randint(min_gy, max_gy) can return
GapSpawn ==
    /\ probe.fn = "gap" /\ probe.res = "input"
    /\ LET gap_size == ClampGap(probe.lv)
       IN  \E gap_y \in MinGapY(gap_size)..MaxGapY(gap_size) :
             probe' = [probe EXCEPT
                         !.res = "wall",
                         !.wall = WallPair(0, SCREEN_WIDTH + WALL_SPAWN_OFFSET,
                                           gap_size, probe.lv.wall_speed, gap_y)]
    /\ UNCHANGED << proc, cfg, hsfile, levels, high_score, game, last >>

\* the same when min_gy > max_gy: random.randint raises ValueError
GapRaises ==
    /\ probe.fn = "gap" /\ probe.res = "input"
    /\ MinGapY(ClampGap(probe.lv)) > MaxGapY(ClampGap(probe.lv))
    /\ probe' = [probe EXCEPT !.res = "raise"]
    /\ UNCHANGED << proc, cfg, hsfile, levels, high_score, game, last >>

NextGap == GapSpawn \/ GapRaises

SpecGap == InitGap /\ [][NextGap]_vars

\* ---------------------------------------- level look-up on its own inputs
\* the entries of the tables drawn: with a score_threshold of 1..MaxThreshold
\* or without one
LevelEntries ==
    { [gravity |-> 1] } \cup
    { [gravity |-> 1, score_threshold |-> t] : t \in 1..MaxThreshold }

\* the tables drawn: every sequence of up to MaxLevels entries, in any order
\* of thresholds, the empty one included
LevelTables == UNION { [1..n -> LevelEntries] : n \in 0..MaxLevels }

\* the scores drawn: those around the thresholds and around the default
\* threshold of an entry without one
LevelScores ==
    (0..(MaxThreshold + 1)) \cup
    { DEFAULT_THRESHOLD - 1, DEFAULT_THRESHOLD, DEFAULT_THRESHOLD + 1 }

\* a Game object with a table and two scores to look up, one after the other
InitLevel ==
    /\ Idle
    /\ probe \in { [fn |-> "level", levels |-> t, scores |-> << a, b >>,
                    idx |-> << >>, res |-> "input"] :
                     t \in LevelTables, a \in LevelScores, b \in LevelScores }

\* Game._level with self.score the next score: the index it leaves in
\* level_idx
LevelCall ==
    /\ probe.fn = "level" /\ probe.res # "raise"
    /\ Len(probe.idx) < Len(probe.scores)
    /\ probe.levels # << >>
    /\ probe' = [probe EXCEPT
                   !.res = "index",
                   !.idx = Append(@, LevelIndex(probe.levels,
                                                probe.scores[Len(probe.idx) + 1]))]
    /\ UNCHANGED << proc, cfg, hsfile, levels, high_score, game, last >>

\* Game._level on an empty table: self.levels[-1] raises IndexError
LevelRaises ==
    /\ probe.fn = "level" /\ probe.res = "input"
    /\ probe.levels = << >>
    /\ probe' = [probe EXCEPT !.res = "raise"]
    /\ UNCHANGED << proc, cfg, hsfile, levels, high_score, game, last >>

NextLevel == LevelCall \/ LevelRaises

SpecLevel == InitLevel /\ [][NextLevel]_vars

\* the look-up on drawn inputs side by side with the game's rounds
SpecLevelRound == (Init \/ InitLevel) /\ [][Next \/ NextLevel]_vars

\* ------------------------------------------- one frame with a wall at hand
\* a level whose walls move 15 px a frame under the full fall speed
TableExample ==
    << [gravity |-> 7, wall_speed |-> 15, enemy_speed |-> 15, gap_size |-> 200,
        coin_spawn_chance |-> 0] >>

\* the player before the frame: hovering in the grace period, or falling at
\* 7 px a frame since it ended (y = 265 + 7k)
ExamplePlayers ==
    { [grace |-> g, y |-> PlayerStartY, vel |-> 0] : g \in 0..2 } \cup
    { [grace |-> 0, y |-> PlayerStartY + 7 * k, vel |-> 7] : k \in 1..8 }

\* the wall before the frame: one move right of the player's column, at its
\* left edge, or past it; the gap centre anywhere in randint's range, in
\* steps of 10 (and 409, for a top body of 309)
ExampleWallXs == { 75, 165, 225, 240 }
ExampleGapYs ==
    { gy \in MinGapY(200)..MaxGapY(200) : gy % 10 = 0 \/ gy = 409 }

\* a PLAYING round in the middle of its flight: one wall on the screen
InitExample ==
    /\ proc = "running"
    /\ cfg = [kind |-> "ok", levels |-> TableExample]
    /\ hsfile = [kind |-> "absent"]
    /\ levels = TableExample
    /\ high_score = 0
    /\ state = PLAYING
    /\ \E p \in ExamplePlayers :
         /\ player = [y |-> p.y, vel |-> p.vel, alive |-> TRUE]
         /\ grace_frames = p.grace
         /\ made = [walls |-> 1, coins |-> 0,
                    frames |-> IF p.vel = 0 THEN GRACE_FRAMES - p.grace
                               ELSE GRACE_FRAMES + 1]
    /\ \E x \in ExampleWallXs, gap_y \in ExampleGapYs :
         walls = << WallPair(0, x, 200, 15, gap_y) >>
    /\ enemies = << >>
    /\ coins = << >>
    /\ score = 0
    /\ coins_collected = 0
    /\ enemy_timer = 0
    /\ level_idx = 0
    /\ flaps = 0
    /\ last = Did("none", "none")
    /\ probe = [fn |-> "example"]

\* Game.update on it, once
ExampleFrame ==
    /\ probe.fn = "example" /\ last.op = "none"
    /\ Update

SpecExample == InitExample /\ [][ExampleFrame]_vars

\* ------------------------------------------------ sessions on a bad store
\* highscore.json in a state that makes a read or a write fail: no file,
\* no JSON in it, not readable, JSON that is not an object, a record that
\* cannot be overwritten, no file in a directory that cannot be written
FailingStores ==
    { [kind |-> "absent"], [kind |-> "garbage"], [kind |-> "unreadable"],
      [kind |-> "notobject"],
      [kind |-> "record", high_score |-> 1, locked |-> TRUE],
      [kind |-> "absent", locked |-> TRUE] }

\* the game installed with a good level table on such a store
InitStore ==
    /\ proc = "off"
    /\ cfg \in { [kind |-> "ok", levels |-> TableWalls],
                 [kind |-> "ok", levels |-> TableSlow] }
    /\ hsfile \in FailingStores
    /\ levels = << >>
    /\ high_score = 0
    /\ state = START
    /\ player = PlayerReset
    /\ walls = << >>
    /\ enemies = << >>
    /\ coins = << >>
    /\ score = 0
    /\ coins_collected = 0
    /\ grace_frames = 0
    /\ enemy_timer = 0
    /\ level_idx = 0
    /\ made = [walls |-> 0, coins |-> 0, frames |-> 0]
    /\ flaps = 0
    /\ last = Did("none", "none")
    /\ probe = NoProbe

SpecStore == InitStore /\ [][Next]_vars
\* ---------------------------------------------- rounds with everything on
\* a level table under which walls, enemies and coins share the screen:
\* an enemy every 5 frames, a coin with every wall and a coin cap of 1 until
\* the first point
TableBusy ==
    << [score_threshold |-> 1, gravity |-> 1, wall_speed |-> 100,
        gap_size |-> 400, wall_spacing |-> 400, enemy_speed |-> 100,
        enemy_spawn_frames |-> 5, coin_spawn_chance |-> 100,
        max_coins_on_screen |-> 1, coin_value |-> 2],
       [gravity |-> 2, wall_speed |-> 100, gap_size |-> 100,
        wall_spacing |-> 400, enemy_speed |-> 100, coin_spawn_chance |-> 0,
        max_coins_on_screen |-> 2, coin_value |-> 5] >>

\* a level for beginners: a gap of 462 in a screen 600 high
TableWide ==
    << [gravity |-> 7, wall_speed |-> 4, enemy_speed |-> 4, gap_size |-> 462,
        coin_spawn_chance |-> 0] >>

\* a single level with an enemy every 20 frames: two of them inside the
\* grace period
TableSwarm ==
    << [gravity |-> 7, wall_speed |-> 4, enemy_speed |-> 100,
        enemy_spawn_frames |-> 20, coin_spawn_chance |-> 0] >>

\* the game installed with one of these tables, or with the one of the long
\* fall, and no high-score file
InitBusy ==
    /\ proc = "off"
    /\ cfg \in { [kind |-> "ok", levels |-> TableBusy],
                 [kind |-> "ok", levels |-> TableSlow],
                 [kind |-> "ok", levels |-> TableWide],
                 [kind |-> "ok", levels |-> TableSwarm] }
    /\ hsfile = [kind |-> "absent"]
    /\ levels = << >>
    /\ high_score = 0
    /\ state = START
    /\ player = PlayerReset
    /\ walls = << >>
    /\ enemies = << >>
    /\ coins = << >>
    /\ score = 0
    /\ coins_collected = 0
    /\ grace_frames = 0
    /\ enemy_timer = 0
    /\ level_idx = 0
    /\ made = [walls |-> 0, coins |-> 0, frames |-> 0]
    /\ flaps = 0
    /\ last = Did("none", "none")
    /\ probe = NoProbe

SpecBusy == InitBusy /\ [][Next]_vars

\* ------------------------------------------------- the loop that keeps going
\* Game.run: "while True" calls handle_events, update and draw once per tick
\* of the clock, so a frame that can be run is run
\* the game installed with the table of the long fall (a gravity of 7, walls
\* and enemies too slow to reach the player) and no high-score file
InitLive ==
    /\ proc = "off"
    /\ cfg = [kind |-> "ok", levels |-> TableSlow]
    /\ hsfile = [kind |-> "absent"]
    /\ levels = << >>
    /\ high_score = 0
    /\ state = START
    /\ player = PlayerReset
    /\ walls = << >>
    /\ enemies = << >>
    /\ coins = << >>
    /\ score = 0
    /\ coins_collected = 0
    /\ grace_frames = 0
    /\ enemy_timer = 0
    /\ level_idx = 0
    /\ made = [walls |-> 0, coins |-> 0, frames |-> 0]
    /\ flaps = 0
    /\ last = Did("none", "none")
    /\ probe = NoProbe

SpecLive == InitLive /\ [][Next]_vars /\ WF_vars(Update)


\* ------------------------------------------------------------------ claims
Running == proc = "running"
InSession == proc = "running" /\ proc' = "running"

\* C1: right after every START->PLAYING and every GAME_OVER->PLAYING
\* transition the score and the bonus total are 0, the wall, enemy and coin
\* lists are empty, the enemy timer is 0, grace_frames is 50, the level index
\* is 0 and the player is alive, at rest, at y = 265.
C1_RestartResets ==
    [][ (InSession /\ state # PLAYING /\ state' = PLAYING) =>
          /\ score' = 0
          /\ coins_collected' = 0
          /\ walls' = << >> /\ enemies' = << >> /\ coins' = << >>
          /\ enemy_timer' = 0
          /\ grace_frames' = 50
          /\ level_idx' = 0
          /\ player' = [y |-> 265, vel |-> 0, alive |-> TRUE] ]_vars

\* a round just restarted by a click on the game-over screen, with a best
\* score of 2 behind it
C1_Witness ==
    /\ Running /\ state = PLAYING /\ last = Did("click", "restart")
    /\ high_score >= 2 /\ grace_frames = 50

\* C2: within a session the game state changes only START->PLAYING on a
\* click in the start button, PLAYING->GAME_OVER on a death in an update, and
\* GAME_OVER->PLAYING on a restart (click in the restart button or SPACE);
\* a flap never changes it, a GAME_OVER update ends no round again, and in
\* GAME_OVER a restart is always possible.
C2_Transitions ==
    /\ [][ (InSession /\ state' # state) =>
             \/ /\ state = START /\ state' = PLAYING
                /\ last' = Did("click", "start")
             \/ /\ state = PLAYING /\ state' = GAME_OVER
                /\ last'.op = "update" /\ last'.res \in {"floor", "wall", "enemy"}
                /\ player.alive /\ ~player'.alive
             \/ /\ state = GAME_OVER /\ state' = PLAYING
                /\ last' \in {Did("click", "restart"), Did("space", "restart")} ]_vars
    /\ [][ (InSession /\ last'.res = "flap") => state' = state ]_vars
    /\ [][ (InSession /\ state = GAME_OVER /\ last'.op = "update") =>
             /\ state' = GAME_OVER
             /\ UNCHANGED << hsfile, high_score, player, score >> ]_vars
    /\ [](Running /\ state = GAME_OVER =>
            /\ ENABLED (EvSpace /\ state' = PLAYING)
            /\ ENABLED (\E pos \in ClickPoints : EvClick(pos) /\ state' = PLAYING))

\* a round restarted from the keyboard: the session went START, PLAYING,
\* GAME_OVER and PLAYING again
C2_Witness ==
    Running /\ state = PLAYING /\ last = Did("space", "restart")

\* two rectangles <<x, y, w, h>> share a point
C3_Overlap(a, b) ==
    /\ a[1] < b[1] + b[3] /\ b[1] < a[1] + a[3]
    /\ a[2] < b[2] + b[4] /\ b[2] < a[2] + a[4]

\* the player's hit-box, 8 px inside the 70x70 sprite at x = 150
C3_PlayerBox == << 158, player.y + 8, 54, 54 >>

\* some wall body, top or bottom, overlaps the player's hit-box
C3_WallHit ==
    \E i \in 1..Len(walls) :
       \/ C3_Overlap(<< walls[i].x, 0, 72, walls[i].top_h >>, C3_PlayerBox)
       \/ C3_Overlap(<< walls[i].x, walls[i].bot_start, 72,
                        600 - walls[i].bot_start >>, C3_PlayerBox)

\* some enemy's hit-box, 10 px inside its 70x70 sprite, overlaps the player's
C3_EnemyHit ==
    \E i \in 1..Len(enemies) :
       C3_Overlap(<< enemies[i].x + 10, enemies[i].y + 10, 50, 50 >>, C3_PlayerBox)

\* C3: after a PLAYING frame whose physics step the player survived, the
\* game is over exactly when the player's inset hit-box overlaps a body
\* rectangle of a live wall or the inset hit-box of a live enemy, each as the
\* frame left it; a wall collision is reported as one, and an enemy collision
\* only when no wall was hit.
C3_CollisionIffOverlap ==
    (Running /\ last.op = "update" /\ last.res \in {"wall", "enemy", "ok"}) =>
        /\ state = GAME_OVER <=> (C3_WallHit \/ C3_EnemyHit)
        /\ last.res = "wall" <=> C3_WallHit
        /\ last.res = "enemy" <=> (C3_EnemyHit /\ ~C3_WallHit)
        /\ last.res = "ok" <=> state = PLAYING

\* a near miss: the frame left an enemy whose sprite overlaps the player's
\* sprite while the hit-boxes are apart, and the round goes on
C3_Witness ==
    /\ Running /\ state = PLAYING /\ last.op = "update" /\ last.res = "ok"
    /\ \E i \in 1..Len(enemies) :
          C3_Overlap(<< enemies[i].x, enemies[i].y, 70, 70 >>,
                     << 150, player.y, 70, 70 >>)

\* the other side: a round ended by an enemy whose hit-box met the player's
C3_WitnessHit ==
    /\ Running /\ state = GAME_OVER /\ last.op = "update" /\ last.res = "enemy"
    /\ C3_EnemyHit

\* the walls of this round, by identity, whose trailing edge is left of the
\* player's x in a wall list ws out of n created: those in the list at
\* x + 72 < 150 and those already removed from it
C4_Passed(ws, n) ==
    { id \in 0..(n - 1) :
        \A i \in 1..Len(ws) : ws[i].id = id => ws[i].x + 72 < 150 }

\* C4: a PLAYING frame raises the score by the number of walls whose trailing
\* edge first got left of the player's x in that frame; no other step changes
\* the score except the reset to 0 of a start or restart; so the score is
\* always the number of this round's walls that have passed the player, each
\* counted once.
C4_ScoreOncePerWall ==
    /\ [][ (InSession /\ state = PLAYING /\ last'.op = "update") =>
             score' = score + Cardinality(C4_Passed(walls', made'.walls)
                                          \ C4_Passed(walls, made.walls)) ]_vars
    /\ [][ (InSession /\ ~(state = PLAYING /\ last'.op = "update")) =>
             \/ score' = score
             \/ score' = 0 /\ last'.res \in {"start", "restart"} ]_vars
    /\ [][ (InSession /\ state = PLAYING /\ last'.op = "update") =>
             C4_Passed(walls, made.walls) \subseteq C4_Passed(walls', made'.walls) ]_vars
    /\ [](Running => score = Cardinality(C4_Passed(walls, made.walls)))

\* a wall that passed the player a frame ago is still on the screen, the
\* score stands at 1 and a second wall is on its way
C4_Witness ==
    /\ Running /\ state = PLAYING /\ last.op = "update" /\ score = 1
    /\ Len(walls) >= 2
    /\ \E i \in 1..Len(walls) : walls[i].x + walls[i].speed + 72 < 150
    /\ \E i \in 1..Len(walls) : walls[i].x + 72 >= 150

\* where the physics step of the coming PLAYING frame would put the player
\* were there no bounds: the velocity is 0 in the grace period, otherwise the
\* old one plus the frame's gravity, at most 7
C5_Target ==
    LET g == levels[level_idx' + 1].gravity
        v == IF grace_frames > 0 THEN 0
             ELSE IF player.vel + g < 7 THEN player.vel + g ELSE 7
    IN  player.y + v

\* C5: the player's y is within [0, 530] in every state; a PLAYING frame
\* whose physics step would put the player below 530 leaves the player at 530
\* and dead, and no other frame kills through the floor; a dead player is in
\* GAME_OVER and is not moved or killed again until a restart.
C5_PlayerInBounds ==
    /\ [](0 <= player.y /\ player.y <= 530)
    /\ [][ (InSession /\ state = PLAYING /\ last'.op = "update") =>
             /\ (C5_Target > 530) <=> (last'.res = "floor")
             /\ last'.res = "floor" =>
                  player.alive /\ ~player'.alive /\ player'.y = 530
             /\ (C5_Target < 0) => player'.y = 0 /\ player'.vel = 0
             /\ (0 <= C5_Target /\ C5_Target <= 530) => player'.y = C5_Target ]_vars
    /\ [](Running /\ ~player.alive => state = GAME_OVER)
    /\ [][ (InSession /\ ~player.alive) =>
             \/ player' = player
             \/ /\ last'.res = "restart"
                /\ player' = [y |-> 265, vel |-> 0, alive |-> TRUE] ]_vars

\* a life ended by the floor: the player lies at y = 530, dead
C5_Witness ==
    /\ Running /\ state = GAME_OVER /\ last = Did("update", "floor")
    /\ player.y = 530 /\ ~player.alive

\* the upper bound at work: a flap has carried the player to the ceiling
C5_WitnessCeiling ==
    Running /\ state = PLAYING /\ player.y = 0 /\ player.vel = 0 /\ player.alive

\* the best score the store holds: the "high_score" of the JSON object in
\* the file, 0 when there is no file or no JSON in it
C6_Stored(f) == IF f.kind = "record" THEN f.high_score ELSE 0

\* C6: no step lowers the stored best score; a game-over and a quit leave
\* the larger of the stored value and the round's score in the store; and the
\* file is written only when that score is strictly above the stored value,
\* with that score.
C6_BestNeverDecreases ==
    /\ [][ C6_Stored(hsfile') >= C6_Stored(hsfile) ]_vars
    /\ [][ (InSession /\ state = PLAYING /\ state' = GAME_OVER) =>
             C6_Stored(hsfile') =
                (IF score' > C6_Stored(hsfile) THEN score' ELSE C6_Stored(hsfile)) ]_vars
    /\ [][ (proc = "running" /\ proc' = "exited") =>
             C6_Stored(hsfile') =
                (IF score > C6_Stored(hsfile) THEN score ELSE C6_Stored(hsfile)) ]_vars
    /\ [][ hsfile' # hsfile =>
             /\ \/ InSession /\ state = PLAYING /\ state' = GAME_OVER
                \/ proc = "running" /\ proc' = "exited"
             /\ score' > C6_Stored(hsfile)
             /\ hsfile' = [kind |-> "record", high_score |-> score'] ]_vars

\* a round that ended with score 2 while the store held 3: it still holds 3
C6_Witness ==
    /\ Running /\ state = GAME_OVER /\ last.op = "update" /\ score = 2
    /\ hsfile = [kind |-> "record", high_score |-> 3] /\ high_score = 3

\* a round that ended with score 2 while the store held 1: it holds 2 now
C6_WitnessBeaten ==
    /\ Running /\ state = GAME_OVER /\ last.op = "update" /\ score = 2
    /\ hsfile = [kind |-> "record", high_score |-> 2] /\ high_score = 2

\* a quit with a score above the stored best wrote it
C6_WitnessQuit ==
    /\ proc = "exited" /\ state = PLAYING /\ score = 1
    /\ hsfile = [kind |-> "record", high_score |-> 1] /\ high_score = 0

\* the coin value a level table entry configures, 1 when it names none
C7_ValueOf(li) ==
    IF "coin_value" \in DOMAIN levels[li + 1] THEN levels[li + 1].coin_value ELSE 1

\* the values of the coins picked up in a frame, each the value configured
\* by the level that created the coin
RECURSIVE C7_OwnValues(_, _)
C7_OwnValues(picked, i) ==
    IF i > Len(picked) THEN 0
    ELSE C7_ValueOf(picked[i].born) + C7_OwnValues(picked, i + 1)

\* the coin hit-box, 4 px inside the 32x32 sprite, overlaps the player's
C7_Touches(c, p) ==
    /\ c.x + 4 < 158 + 54 /\ 158 < c.x + 4 + 24
    /\ c.y + 4 < p.y + 8 + 54 /\ p.y + 8 < c.y + 4 + 24

C7_Ids(cs) == { cs[i].id : i \in 1..Len(cs) }

\* pickups are exactly-once, each credited `credit`: a PLAYING frame that
\* reaches the coin phase removes exactly the coins whose hit-box overlaps the
\* player's after their move (and those gone off the screen), no coin it
\* leaves overlaps, and the bonus total grows by the credit of the coins
\* picked up; a removed coin never comes back; no other step changes the
\* bonus total except the reset of a start or restart; a pickup frame leaves
\* the round going.
C7_Pickup(credit) ==
    /\ (InSession /\ state = PLAYING /\ last'.op = "update") =>
         /\ coins_collected' = coins_collected + credit
         /\ \A i \in 1..Len(last'.picked) :
              /\ C7_Touches(last'.picked[i], player')
              /\ last'.picked[i].id \notin C7_Ids(coins')
              /\ last'.picked[i].id \in C7_Ids(coins) \cup {made.coins}
         /\ last'.res = "ok" =>
              /\ \A i \in 1..Len(coins') : ~C7_Touches(coins'[i], player')
              /\ \A i \in 1..Len(coins) :
                   \/ coins[i].id \in C7_Ids(coins')
                   \/ coins[i].id \in C7_Ids(last'.picked)
                   \/ coins[i].x - coins[i].speed + 32 < -10
         /\ last'.picked # << >> => state' = PLAYING
         /\ C7_Ids(coins') \subseteq C7_Ids(coins) \cup {made.coins}
         /\ Cardinality(C7_Ids(coins')) = Len(coins')
    /\ (InSession /\ ~(state = PLAYING /\ last'.op = "update")) =>
         \/ coins_collected' = coins_collected
         \/ coins_collected' = 0 /\ last'.res \in {"start", "restart"}

\* C7: a pickup removes the coin for good and raises the bonus total by
\* exactly that coin's configured value, the coin value of the level that
\* created it, and nothing else changes the bonus total
C7_PickupCreditsOwnValue ==
    [][ C7_Pickup(C7_OwnValues(last'.picked, 1)) ]_vars

\* what the code does: the same with each pickup credited the coin value of
\* the level in force in the frame of the pickup
C7_PickupCreditsFrameValue ==
    [][ C7_Pickup(Len(last'.picked) * C7_ValueOf(level_idx')) ]_vars

\* a coin created in the first level (coin value 2) was picked up in a frame
\* of the second (coin value 5)
C7_Witness ==
    /\ Running /\ state = PLAYING /\ last.op = "update"
    /\ Len(last.picked) = 1 /\ last.picked[1].born = 0 /\ level_idx = 1
    /\ coins_collected = 5

\* C8: every generated wall pair has a top body of height >= 70, a bottom
\* body of height >= 70, the heights being those of the collision
\* rectangles, and top height + gap size + bottom height = 600
C8_GapPartition ==
    (probe.fn = "gap" /\ probe.res = "wall") =>
        LET w == probe.wall
            top_h == TopRect(w).h
            bot_h == BotRect(w).h
        IN  /\ w.gap_size >= 150
            /\ TopRect(w).y = 0 /\ BotRect(w).y + bot_h = 600
            /\ top_h >= 70
            /\ bot_h >= 70
            /\ top_h + w.gap_size + bot_h = 600

\* what does hold of every generated pair: both bodies are at least 70 high,
\* the opening between them is gap_size rounded down to an even number, and
\* the three heights add up to 600 for an even gap size and to 601 for an odd
C8_GapPartitionHalved ==
    (probe.fn = "gap" /\ probe.res = "wall") =>
        LET w == probe.wall
            top_h == TopRect(w).h
            bot_h == BotRect(w).h
        IN  /\ w.gap_size >= 150
            /\ top_h >= 70
            /\ bot_h >= 70
            /\ top_h + 2 * (w.gap_size \div 2) + bot_h = 600
            /\ top_h + w.gap_size + bot_h = 600 + (w.gap_size % 2)

\* a pair generated for the odd gap size 151
C8_Witness ==
    probe.fn = "gap" /\ probe.res = "wall" /\ probe.wall.gap_size = 151

\* a gap size of 462 or more leaves no centre to draw: the spawn raises
C8_WitnessRaise ==
    probe.fn = "gap" /\ probe.res = "raise" /\ probe.lv.gap_size = 462

\* the threshold of entry i (counted from 0) of the table looked up: its
\* score_threshold, 999999 when it has none
C9_Threshold(i) ==
    IF "score_threshold" \in DOMAIN probe.levels[i + 1]
    THEN probe.levels[i + 1].score_threshold ELSE 999999

\* the entries whose threshold strictly exceeds score
C9_Above(sc) == { i \in 0..(Len(probe.levels) - 1) : C9_Threshold(i) > sc }

\* k is the first entry whose threshold strictly exceeds the score, the last
\* entry when there is none
C9_FirstAbove(sc, k) ==
    IF C9_Above(sc) = {}
    THEN k = Len(probe.levels) - 1
    ELSE k \in C9_Above(sc) /\ \A i \in C9_Above(sc) : k <= i

C9_WitnessLast ==
    /\ probe.fn = "level" /\ probe.res = "index" /\ Len(probe.levels) = 2
    /\ C9_Threshold(0) = 1 /\ C9_Threshold(1) = 2
    /\ Len(probe.idx) >= 1 /\ probe.scores[1] = 2 /\ probe.idx[1] = 1

\* C10: for every table and scores a <= b the level index looked up for a is
\* at most the one looked up for b; and within a round the score and the
\* level index never decrease.
C10_LevelMonotonic ==
    /\ []( (probe.fn = "level" /\ Len(probe.idx) = 2) =>
             /\ probe.scores[1] <= probe.scores[2] => probe.idx[1] <= probe.idx[2]
             /\ probe.scores[1] >= probe.scores[2] => probe.idx[1] >= probe.idx[2] )
    /\ [][ (InSession /\ state = PLAYING) =>
             /\ score' >= score
             /\ level_idx' >= level_idx
             /\ last'.op = "update" /\ last'.res # "frozen" =>
                  level_idx' = LevelIndex(levels, score) ]_vars

\* two scores with different level indexes were looked up in one table
C10_Witness ==
    /\ probe.fn = "level" /\ Len(probe.idx) = 2
    /\ probe.scores[1] < probe.scores[2] /\ probe.idx[1] < probe.idx[2]

\* a round that has reached the third level
C10_WitnessRound ==
    Running /\ state = PLAYING /\ level_idx = 2 /\ score = 2

\* the wall of the example (identity 0) after the frame
C11_Wall == walls[1]

\* the frame has run and left the example's wall in the player's column
C11_InColumn ==
    /\ probe.fn = "example" /\ last.op = "update" /\ last.res # "floor"
    /\ walls # << >> /\ C11_Wall.id = 0
    /\ C11_Wall.x < 158 + 54 /\ 158 < C11_Wall.x + 72

\* C11 as stated: with the player at y = 300 (hit-box (158, 308, 54, 54)) and
\* a wall whose top body is (150, 0, 72, 280) the frame ends in GAME_OVER
C11_ExampleCollides ==
    (C11_InColumn /\ player.y = 300 /\ C11_Wall.x = 150 /\ C11_Wall.top_h = 280)
        => state = GAME_OVER

\* C11, amended: with the player at y = 300 and the top body (150, 0, 72, 280)
\* the rectangles do not overlap (the hit-box spans y 308..362, the body
\* 0..280) and the round goes on; a wall in the player's column ends the
\* round in that frame exactly when its top body reaches below the top of the
\* hit-box (top height > y + 8, e.g. (150, 0, 72, 309) at y = 300, or y = 265
\* under (150, 0, 72, 280)) or its bottom body starts above the bottom of the
\* hit-box
C11_ExampleNeedsOverlap ==
    /\ (C11_InColumn /\ player.y = 300 /\ C11_Wall.x = 150 /\ C11_Wall.top_h = 280)
         => state = PLAYING
    /\ (C11_InColumn /\ player.y = 300 /\ C11_Wall.x = 150 /\ C11_Wall.top_h = 309)
         => state = GAME_OVER
    /\ (C11_InColumn /\ player.y = 265 /\ C11_Wall.x = 150 /\ C11_Wall.top_h = 280)
         => state = GAME_OVER
    /\ C11_InColumn =>
         (state = GAME_OVER <=>
            \/ C11_Wall.top_h > player.y + 8
            \/ C11_Wall.bot_start < player.y + 8 + 54)
    /\ (probe.fn = "example" /\ last.op = "update" /\ last.res # "floor"
        /\ ~C11_InColumn) => state = PLAYING

\* the example itself after its frame: player at y = 300, top body
\* (150, 0, 72, 280), and the round goes on
C11_Witness ==
    /\ C11_InColumn /\ player.y = 300 /\ C11_Wall.x = 150 /\ C11_Wall.top_h = 280
    /\ state = PLAYING

\* the same wall with a top body of 309: the round is over
C11_WitnessHit ==
    /\ C11_InColumn /\ player.y = 300 /\ C11_Wall.x = 150 /\ C11_Wall.top_h = 309
    /\ state = GAME_OVER

\* C12: a failure of the best-score store is never fatal: the game launches
\* on every store, with best score 0 unless the store holds a record, and no
\* game-over and no quit ends the process with an exception; a game-over on a
\* store that cannot be written leaves the game in GAME_OVER, a quit exits.
C12_StoreFailureNeverFatal ==
    /\ proc # "crashed"
    /\ (last.op = "launch") =>
          /\ Running
          /\ high_score = (IF hsfile.kind = "record" THEN hsfile.high_score ELSE 0)
    /\ (last.op = "quit") => proc = "exited"

\* what the code does handle: a store with no file or with no JSON in its
\* file reads as best score 0, and a write that is not attempted (the score
\* does not beat the record) cannot fail
C12_HandledFailures ==
    /\ (last.op = "launch" /\ hsfile.kind \in {"absent", "garbage"}) =>
          Running /\ high_score = 0
    /\ proc = "crashed" =>
          \/ last.op = "launch" /\ hsfile.kind \in {"unreadable", "notobject"}
          \/ /\ last.op \in {"update", "quit"} /\ "locked" \in DOMAIN hsfile
             /\ score > (IF hsfile.kind = "record" THEN hsfile.high_score ELSE 0)

\* a round that scored 2 on a record of 1 that cannot be overwritten: the
\* game-over's write raised and ended the process
C12_WitnessWrite ==
    /\ proc = "crashed" /\ last.op = "update"
    /\ hsfile = [kind |-> "record", high_score |-> 1, locked |-> TRUE]

\* a quit in the middle of such a round
C12_WitnessQuit ==
    /\ proc = "crashed" /\ last.op = "quit" /\ state = PLAYING

\* a launch on a store that is not readable
C12_WitnessRead ==
    /\ proc = "crashed" /\ last.op = "launch" /\ hsfile.kind = "unreadable"

\* the tunables a level entry has to give (all those of the level table but
\* the optional flap impulse)
C13_Required ==
    { "gravity", "wall_speed", "gap_size", "wall_spacing", "enemy_speed",
      "enemy_spawn_frames", "coin_spawn_chance", "max_coins_on_screen",
      "coin_speed_multiplier", "coin_value", "coin_y_padding_px" }

\* levels.json is missing or malformed: no file, no JSON, no "levels" in it,
\* an empty list, or an entry without a required tunable
C13_Malformed ==
    \/ cfg.kind # "ok"
    \/ cfg.levels = << >>
    \/ \E i \in 1..Len(cfg.levels) : ~(C13_Required \subseteq DOMAIN cfg.levels[i])

\* C13: on a missing or malformed level configuration the system fails to
\* start: it never runs, in START or in PLAYING
C13_BadConfigNeverStarts ==
    C13_Malformed => ~Running

\* what the code does: without a file, without JSON or without "levels" the
\* launch fails; an empty list is found out by the first PLAYING frame only,
\* which ends the process; a missing tunable is never found out
C13_FatalCases ==
    /\ cfg.kind # "ok" => ~Running
    /\ (cfg.kind = "ok" /\ cfg.levels = << >> /\ Running) =>
          /\ state \in {START, PLAYING}
          /\ last.op # "update" \/ state = START
    /\ (cfg.kind = "ok" /\ cfg.levels # << >> /\ ~LoadRaises(hsfile)
        /\ last.op = "launch") => Running

\* the empty level list: the start screen is up
C13_WitnessEmpty ==
    Running /\ cfg.kind = "ok" /\ cfg.levels = << >> /\ state = START

\* the empty level list: a round was started, and its first frame raised
C13_WitnessEmptyRound ==
    /\ proc = "crashed" /\ cfg.kind = "ok" /\ cfg.levels = << >>
    /\ state = PLAYING /\ last = Did("update", "crash")

\* an entry without gap_size and wall_spacing: frames run on the defaults,
\* here with a wall that has the default gap of 200
C13_WitnessDefaulted ==
    /\ Running /\ state = PLAYING /\ last.op = "update"
    /\ "gap_size" \notin DOMAIN levels[level_idx + 1]
    /\ walls # << >> /\ walls[1].gap_size = 200

\* the best score in the store
C14_Stored(f) == IF f.kind = "record" THEN f.high_score ELSE 0

\* C14: a quit is taken in every state of a running game; it ends the
\* process with the store holding at least the round's score and at least
\* the best score known in memory (exactly the largest of these and what it
\* held); and a process that has exited runs no frame and handles no event.
C14_QuitPersists ==
    /\ [](Running => ENABLED EvQuit)
    /\ [][ (proc = "running" /\ last'.op = "quit") =>
             /\ proc' = "exited"
             /\ C14_Stored(hsfile') >= score
             /\ C14_Stored(hsfile') >= high_score
             /\ C14_Stored(hsfile') \in {C14_Stored(hsfile), score, high_score} ]_vars
    /\ [][ proc = "exited" => (proc' # "exited" /\ last'.op = "launch") ]_vars
    /\ [](proc = "exited" => last.op = "quit")

\* a quit in the middle of a round whose score, 2, had beaten the record of 1:
\* the store holds 2
C14_Witness ==
    /\ proc = "exited" /\ state = PLAYING /\ score = 2 /\ high_score = 1
    /\ hsfile = [kind |-> "record", high_score |-> 2]

\* a quit on the start screen and one on the game-over screen
C14_WitnessStart == proc = "exited" /\ state = START /\ last.op = "quit"
C14_WitnessOver == proc = "exited" /\ state = GAME_OVER /\ last.op = "quit"

\* the frame's level entry and the player after the frame's physics step,
\* from the state the frame starts in
C15_Level == levels[LevelIndex(levels, score) + 1]
C15_Physics == PlayerUpdate(player, C15_Level.gravity, grace_frames > 0)

\* C15: in a PLAYING frame, a death in the physics step ends the round with
\* walls, score, enemy timer, enemies, coins and bonus total as the frame
\* found them; a wall collision is met only by a player the physics step left
\* alive and leaves enemy timer, enemies, coins and bonus total as they were;
\* an enemy collision is met only when no wall was hit and leaves coins and
\* bonus total as they were; and a round ends in a frame in no other way.
C15_FatalEndsFrame ==
    [][ (proc = "running" /\ state = PLAYING /\ last'.op = "update"
         /\ last'.res # "crash") =>
          /\ ~C15_Physics.alive <=> last'.res = "floor"
          /\ last'.res = "floor" =>
               /\ state' = GAME_OVER
               /\ player' = [C15_Physics EXCEPT !.alive = FALSE]
               /\ walls' = walls /\ score' = score
               /\ made'.walls = made.walls /\ made'.coins = made.coins
               /\ enemy_timer' = enemy_timer /\ enemies' = enemies
               /\ coins' = coins /\ coins_collected' = coins_collected
          /\ last'.res = "wall" =>
               /\ state' = GAME_OVER
               /\ player'.y = C15_Physics.y
               /\ \E i \in 1..Len(walls') : WallCollides(walls'[i], PlayerRect(player'))
               /\ enemy_timer' = enemy_timer /\ enemies' = enemies
               /\ coins' = coins /\ coins_collected' = coins_collected
               /\ made'.coins = made.coins
          /\ last'.res = "enemy" =>
               /\ state' = GAME_OVER
               /\ \A i \in 1..Len(walls') : ~WallCollides(walls'[i], PlayerRect(player'))
               /\ \E i \in 1..Len(enemies') : EnemyCollides(enemies'[i], PlayerRect(player'))
               /\ enemy_timer' \in {0, enemy_timer + 1}
               /\ coins' = coins /\ coins_collected' = coins_collected
               /\ made'.coins = made.coins
          /\ state' = GAME_OVER <=> last'.res \in {"floor", "wall", "enemy"}
          /\ last'.res = "ok" => enemy_timer' \in {0, enemy_timer + 1} ]_vars

\* a death on the floor in a frame that found walls on screen
C15_WitnessFloor ==
    /\ Running /\ state = GAME_OVER /\ last.op = "update" /\ last.res = "floor"
    /\ walls # << >>

\* a wall collision in a frame that found the enemy timer running
C15_WitnessWall ==
    /\ Running /\ state = GAME_OVER /\ last.op = "update" /\ last.res = "wall"
    /\ enemy_timer > 0

\* an enemy collision in a frame that found a coin on screen
C15_WitnessEnemy ==
    /\ Running /\ state = GAME_OVER /\ last.op = "update" /\ last.res = "enemy"
    /\ coins # << >>

\* the wall created in the step, if the step created one
C16_New == { i \in 1..Len(walls') : walls'[i].id = made.walls }

\* the wall phase of the step spawned exactly one wall, created at x = 840
\* (and moved at most once since) with the level's speed and its gap size
\* raised to 150
C16_SpawnedOne ==
    /\ made'.walls = made.walls + 1
    /\ Len(walls') <= Len(walls) + 1
    /\ \E i \in C16_New :
         /\ i = Len(walls')
         /\ walls'[i].x \in {840, 840 - C15_Level.wall_speed}
         /\ walls'[i].speed = C15_Level.wall_speed
         /\ walls'[i].gap_size = Max(Get(C15_Level, "gap_size", 200), 150)

\* the opening of a wall
C16_Opening(w) == BotRect(w).y - (TopRect(w).y + TopRect(w).h)

\* C16: every PLAYING frame whose physics step leaves the player alive
\* spawns exactly one wall if there is no wall or the last wall's x is under
\* 800 - spacing, and none otherwise; the new wall is created at x = 840 with
\* the level's speed and a gap size of max(level gap size, 150); no wall on
\* screen has a gap under 150.
C16_SpawnRule ==
    /\ [][ (proc = "running" /\ state = PLAYING /\ last'.op = "update"
            /\ levels # << >> /\ C15_Physics.alive) =>
             IF walls = << >> \/
                walls[Len(walls)].x < 800 - Get(C15_Level, "wall_spacing", 350)
             THEN C16_SpawnedOne
             ELSE made'.walls = made.walls /\ C16_New = {}
                  /\ Len(walls') <= Len(walls) ]_vars
    /\ [](\A i \in 1..Len(walls) :
            walls[i].gap_size >= 150 /\ C16_Opening(walls[i]) >= 150)

\* the same of the frames that run to their end, and the frames that do not
\* are those that owe a wall of a gap size of 462 or more
C16_SpawnRuleUnlessRaise ==
    /\ [][ (proc = "running" /\ state = PLAYING /\ last'.op = "update"
            /\ levels # << >> /\ C15_Physics.alive) =>
             IF last'.res = "crash"
             THEN /\ walls = << >> \/
                     walls[Len(walls)].x < 800 - Get(C15_Level, "wall_spacing", 350)
                  /\ Max(Get(C15_Level, "gap_size", 200), 150) >= 462
                  /\ walls' = walls /\ made' = made
             ELSE IF walls = << >> \/
                     walls[Len(walls)].x < 800 - Get(C15_Level, "wall_spacing", 350)
             THEN C16_SpawnedOne
             ELSE made'.walls = made.walls /\ C16_New = {}
                  /\ Len(walls') <= Len(walls) ]_vars
    /\ [](\A i \in 1..Len(walls) :
            walls[i].gap_size >= 150 /\ C16_Opening(walls[i]) >= 150)

\* a frame spawned the round's second wall behind the first
C16_Witness ==
    /\ Running /\ state = PLAYING /\ last.op = "update" /\ last.wall
    /\ Len(walls) = 2 /\ walls[2].id = 1

\* a frame spawned no wall: the last one is still right of 800 - spacing
C16_WitnessNone ==
    /\ Running /\ state = PLAYING /\ last.op = "update" /\ ~last.wall
    /\ walls # << >>

\* a wall whose level asked for a gap of 100 has one of 150
C16_WitnessClamped ==
    /\ Running /\ state = PLAYING /\ level_idx = 1 /\ levels[2].gap_size = 100
    /\ \E i \in 1..Len(walls) : walls[i].gap_size = 150

\* the first frame of a round under a gap size of 462 ended the process
C16_WitnessRaise ==
    /\ proc = "crashed" /\ state = PLAYING /\ last.op = "update"
    /\ levels = TableWide /\ walls = << >>

\* the enemy interval of the frame's level, and of every level of the table
C17_Interval == Get(C15_Level, "enemy_spawn_frames", 500)
C17_Constant(n) ==
    \A i \in 1..Len(levels) : Get(levels[i], "enemy_spawn_frames", 500) = n

\* the step is a PLAYING frame that reaches the enemy phase
C17_EnemyFrame ==
    /\ proc = "running" /\ state = PLAYING
    /\ last'.op = "update" /\ last'.res \in {"enemy", "ok"}

\* the step appended one enemy, with the level's speed, right of the screen
C17_SpawnedOne ==
    /\ Len(enemies') <= Len(enemies) + 1
    /\ enemies' # << >>
    /\ LET e == enemies'[Len(enemies')]
       IN  /\ e.speed = C15_Level.enemy_speed
           /\ \E xo \in 20..120 : e.x \in {800 + xo, 800 + xo - e.speed}

\* C17: a PLAYING frame that reaches the enemy phase, in the grace period or
\* after it, adds 1 to the enemy timer; if the sum has reached the interval
\* of the frame's level it spawns one enemy and leaves the timer at 0, else it
\* spawns none and leaves the sum, so that 0 <= timer < interval after the
\* frame; nothing else changes the timer but the start of a round, which
\* sets it to 0 (and the end of the process); and under a table whose
\* levels share one interval N >= 1 a spawn happens exactly in the N-th
\* frame after the last spawn or the start of the round.
C17_EnemyTimer ==
    /\ [][ C17_EnemyFrame =>
             /\ IF enemy_timer + 1 >= C17_Interval
                THEN enemy_timer' = 0 /\ last'.enemy /\ C17_SpawnedOne
                ELSE /\ enemy_timer' = enemy_timer + 1 /\ ~last'.enemy
                     /\ Len(enemies') <= Len(enemies)
             /\ 0 <= enemy_timer' /\ enemy_timer' < C17_Interval
             /\ (C17_Interval >= 1 /\ C17_Constant(C17_Interval)) =>
                  (last'.enemy <=> enemy_timer + 1 = C17_Interval) ]_vars
    /\ [][ (proc = "running" /\ enemy_timer' # enemy_timer) =>
             \/ C17_EnemyFrame
             \/ last'.res \in {"start", "restart"} /\ enemy_timer' = 0
             \/ proc' # "running" ]_vars
    /\ [][ (proc = "running" /\ enemies' # enemies) =>
             \/ state = PLAYING /\ last'.op = "update"
             \/ last'.res \in {"start", "restart"} /\ enemies' = << >>
             \/ proc' # "running" ]_vars

\* the second enemy of a round under the constant interval 20: spawned in
\* frame 40 of the grace period, 20 frames after the first
C17_Witness ==
    /\ Running /\ state = PLAYING /\ last.op = "update" /\ last.enemy
    /\ C17_Constant(20) /\ enemy_timer = 0 /\ grace_frames = 10

\* a spawn inside the grace period
C17_WitnessGrace ==
    /\ Running /\ state = PLAYING /\ last.op = "update" /\ last.enemy
    /\ grace_frames > 0

\* the timer after a restart
C17_WitnessRestart ==
    /\ Running /\ state = PLAYING /\ last.res = "restart" /\ enemy_timer = 0

\* the coin cap of the frame's level, and the coins the step created
C18_Cap == Get(C15_Level, "max_coins_on_screen", 3)
C18_New == { i \in 1..Len(coins') : coins'[i].id >= made.coins }

\* C18: a PLAYING frame creates at most one coin, and creates one only if its
\* wall phase spawned a wall in the same frame and the frame found fewer
\* coins than the cap of its level, so that the count is within the cap
\* after a spawn; no frame takes the count from within the cap of its level
\* to beyond it, and the count stays within the cap of the round's first
\* level for as long as that level lasts; nothing but a PLAYING frame adds a
\* coin.
C18_CoinSpawn ==
    /\ [][ (proc = "running" /\ state = PLAYING /\ last'.op = "update"
            /\ last'.res # "crash") =>
             /\ Cardinality(C18_New) <= 1
             /\ made'.coins = made.coins + Cardinality(C18_New)
             /\ last'.coin <=> C18_New # {}
             /\ C18_New # {} =>
                  /\ made'.walls = made.walls + 1
                  /\ \E i \in 1..Len(walls') : walls'[i].id = made.walls
                  /\ Len(coins) < C18_Cap
                  /\ Len(coins') <= C18_Cap
             /\ Len(coins) <= C18_Cap => Len(coins') <= C18_Cap ]_vars
    /\ [][ (proc = "running" /\ ~(state = PLAYING /\ last'.op = "update")) =>
             \/ coins' = coins
             \/ coins' = << >> ]_vars
    /\ [](Running /\ state = PLAYING /\ level_idx = 0 /\ levels # << >> =>
            Len(coins) <= Get(levels[1], "max_coins_on_screen", 3))

\* a frame spawned a wall and with it a coin, the only one allowed by the cap
\* of 1
C18_Witness ==
    /\ Running /\ state = PLAYING /\ last.op = "update" /\ last.wall /\ last.coin
    /\ level_idx = 0 /\ Get(levels[1], "max_coins_on_screen", 3) = 1
    /\ Len(coins) = 1

\* a frame spawned a wall and, with a coin certain by the level's chance, no
\* coin: the cap of 1 was taken by the coin of the wall before
C18_WitnessCapped ==
    /\ Running /\ state = PLAYING /\ last.op = "update" /\ last.wall /\ ~last.coin
    /\ level_idx = 0 /\ Get(levels[1], "max_coins_on_screen", 3) = 1
    /\ Get(levels[1], "coin_spawn_chance", 50) = 100
    /\ Len(coins) = 1 /\ made.walls = 2 /\ made.coins = 1

\* C19: every PLAYING frame leaves in level_idx the index selected by the
\* score the frame started with, and what it does it does with the tunables
\* of that entry: the fall with its gravity; the wall spawn with its
\* spacing, speed and gap size; the enemy spawn with its interval and speed;
\* the coin spawn with its cap and speed, and the pickups with its value.
\* The score a frame changes selects the level of the next frame.
C19_LevelPerFrame ==
    [][ (proc = "running" /\ state = PLAYING /\ last'.op = "update"
         /\ last'.res # "crash") =>
          /\ level_idx' = LevelIndex(levels, score)
          /\ player'.y = C15_Physics.y /\ player'.vel = C15_Physics.vel
          /\ last'.res # "floor" =>
               /\ last'.wall <=>
                    (walls = << >> \/
                     walls[Len(walls)].x < 800 - Get(C15_Level, "wall_spacing", 350))
               /\ last'.wall => C16_SpawnedOne
          /\ last'.res \in {"enemy", "ok"} =>
               /\ last'.enemy <=> enemy_timer + 1 >= C17_Interval
               /\ last'.enemy => C17_SpawnedOne
          /\ last'.res = "ok" =>
               /\ last'.coin => Len(coins) < C18_Cap
               /\ \A i \in C18_New :
                    coins'[i].speed = C15_Level.wall_speed *
                                      Get(C15_Level, "coin_speed_multiplier", 1)
               /\ coins_collected' = coins_collected +
                    Len(last'.picked) * Get(C15_Level, "coin_value", 1) ]_vars

\* the frame after the one that scored the first point ran on the second
\* level: it fell with that level's gravity of 2 and its wall has that
\* level's gap, raised from 100 to 150
C19_Witness ==
    /\ Running /\ state = PLAYING /\ last.op = "update" /\ last.wall
    /\ levels = TableBusy /\ score = 1 /\ level_idx = 1
    /\ player.vel = 2
    /\ walls[Len(walls)].gap_size = 150

\* the frame that scored the first point: the score is 1, the level still the
\* first
C19_WitnessScoring ==
    /\ Running /\ state = PLAYING /\ last.op = "update"
    /\ levels = TableBusy /\ score = 1 /\ level_idx = 0

\* the step is a PLAYING frame, and its physics step ran with gravity
\* suspended (hover), or with gravity applied (fall)
C20_Frame ==
    /\ proc = "running" /\ state = PLAYING
    /\ last'.op = "update" /\ last'.res # "crash"
C20_Step(grace) == PlayerUpdate(player, C15_Level.gravity, grace)
C20_Hover == player'.y = C20_Step(TRUE).y /\ player'.vel = C20_Step(TRUE).vel
C20_Fall == player'.y = C20_Step(FALSE).y /\ player'.vel = C20_Step(FALSE).vel

\* C20: whatever the inputs, each of the first 50 PLAYING frames of a round
\* runs with gravity suspended and every later frame with gravity applied;
\* the grace counter is 50 at the start of a round, changes only in a
\* PLAYING frame, by -1, and is never negative.
C20_GraceFixed ==
    /\ [][ C20_Frame => IF made.frames < 50 THEN C20_Hover ELSE C20_Fall ]_vars
    /\ [][ (proc = "running" /\ proc' = "running"
            /\ grace_frames' # grace_frames) =>
             \/ last'.res \in {"start", "restart"} /\ grace_frames' = 50
             \/ C20_Frame /\ grace_frames' = grace_frames - 1 ]_vars
    /\ [](grace_frames >= 0)

\* what holds instead: a flap ends the grace period.  A frame runs with
\* gravity suspended exactly when the round has had no flap yet and the frame
\* is one of its first 50; the grace counter is 50 at the start of a round,
\* loses 1 in each PLAYING frame that finds it positive, is set to 0 by a
\* flap, changes in no other way and is never negative.
C20_GraceUntilFlap ==
    /\ [][ C20_Frame =>
             /\ IF made.frames < 50 /\ flaps = 0 THEN C20_Hover ELSE C20_Fall
             /\ grace_frames' = IF grace_frames > 0 THEN grace_frames - 1 ELSE 0 ]_vars
    /\ [][ (proc = "running" /\ proc' = "running"
            /\ grace_frames' # grace_frames) =>
             \/ last'.res \in {"start", "restart"} /\ grace_frames' = 50
             \/ C20_Frame
             \/ last'.res = "flap" /\ grace_frames' = 0 ]_vars
    /\ [][ (proc = "running" /\ last'.res \in {"start", "restart"}) =>
             grace_frames' = 50 /\ made'.frames = 0 /\ flaps' = 0 ]_vars
    /\ [](Running /\ state # START =>
            grace_frames = IF flaps = 0 /\ made.frames < 50
                           THEN 50 - made.frames ELSE 0)

\* frame 10 of a round fell: a flap had ended the grace period
C20_Witness ==
    /\ Running /\ state = PLAYING /\ last.op = "update"
    /\ made.frames = 10 /\ flaps = 1 /\ grace_frames = 0
    /\ player.vel # 0

\* frame 50 of a round without a flap hovered, and frame 51 fell
C20_WitnessLast ==
    /\ Running /\ state = PLAYING /\ last.op = "update"
    /\ made.frames = 50 /\ flaps = 0 /\ grace_frames = 0
    /\ player = PlayerReset
C20_WitnessAfter ==
    /\ Running /\ last.op = "update"
    /\ made.frames = 51 /\ flaps = 0 /\ player.vel > 0

\* the simulation as the claim lists it: scores, counters, the player and
\* every wall, enemy and coin
C21_Simulation ==
    << score, coins_collected, high_score, grace_frames, enemy_timer, level_idx,
       player.y, player.vel, player.alive, walls, enemies, coins >>

\* C21: an update in GAME_OVER leaves the score, the bonus total, the best
\* score, the grace counter, the enemy timer, the level index, the player
\* and every wall, enemy and coin as they were, and stays in GAME_OVER; an
\* input in GAME_OVER that does not restart changes none of them either; and
\* a flap of the player of a GAME_OVER state changes nothing of the player.
C21_GameOverFrozen ==
    /\ [][ (proc = "running" /\ state = GAME_OVER /\ last'.op = "update") =>
             /\ C21_Simulation' = C21_Simulation
             /\ state' = GAME_OVER /\ proc' = "running" /\ hsfile' = hsfile ]_vars
    /\ [][ (proc = "running" /\ state = GAME_OVER /\ proc' = "running"
            /\ state' = GAME_OVER) =>
             C21_Simulation' = C21_Simulation /\ last'.res # "flap" ]_vars
    /\ [](Running /\ state = GAME_OVER => PlayerFlap(player) = player)

\* an update in GAME_OVER with a wall, an enemy and a coin on the screen
C21_Witness ==
    /\ Running /\ state = GAME_OVER /\ last.op = "update" /\ last.res = "frozen"
    /\ walls # << >> /\ enemies # << >> /\ coins # << >>

\* C22: in a running game, after every event and every update, the player's
\* alive flag is false exactly in GAME_OVER; every step from PLAYING to
\* GAME_OVER is a frame in which the player met the floor, a wall or an
\* enemy and clears the flag; every step into PLAYING sets it.
C22_AliveIffNotOver ==
    /\ [](Running => (~player.alive <=> state = GAME_OVER))
    /\ [][ (proc = "running" /\ proc' = "running" /\ state # GAME_OVER
            /\ state' = GAME_OVER) =>
             /\ state = PLAYING /\ player.alive /\ ~player'.alive
             /\ last'.op = "update" /\ last'.res \in {"floor", "wall", "enemy"} ]_vars
    /\ [][ (proc = "running" /\ proc' = "running" /\ state # PLAYING
            /\ state' = PLAYING) =>
             player' = PlayerReset /\ player'.alive ]_vars

\* a wall ended the round: the physics step had left the player alive and
\* above the floor, and the flag is cleared
C22_Witness ==
    /\ Running /\ state = GAME_OVER /\ last.op = "update" /\ last.res = "wall"
    /\ ~player.alive /\ player.y < 530

\* a death on the floor, and the round after a restart
C22_WitnessFloor ==
    /\ Running /\ state = GAME_OVER /\ last.res = "floor" /\ ~player.alive
    /\ player.y = 530
C22_WitnessRestart ==
    /\ Running /\ state = PLAYING /\ last.res = "restart" /\ player.alive

\* the identities of the walls in a list, and the walls of a list whose
\* scored flag is set
C23_Ids(ws) == { ws[i].id : i \in 1..Len(ws) }
C23_Scored(ws) == { i \in 1..Len(ws) : ws[i].scored }

\* C23: a wall leaves the list only in a PLAYING frame (or with the whole
\* list, at a start or restart), and then its move of that frame took it
\* off the screen (x + 72 < -10) and it had been scored, before the frame or
\* in it; in PLAYING no wall of the list is off the screen; and within a
\* round the score is the number of walls removed so far plus the number of
\* walls in the list whose scored flag is set.
C23_NoWallUnscored ==
    /\ [][ (proc = "running" /\ proc' = "running" /\ state = PLAYING
            /\ last'.op = "update") =>
             \A i \in 1..Len(walls) :
               walls[i].id \notin C23_Ids(walls') =>
                 /\ walls[i].x - walls[i].speed + 72 < -10
                 /\ walls[i].scored \/ score' > score ]_vars
    /\ [][ (proc = "running" /\ proc' = "running"
            /\ ~(state = PLAYING /\ last'.op = "update")) =>
             \/ C23_Ids(walls) \subseteq C23_Ids(walls')
             \/ last'.res \in {"start", "restart"} /\ walls' = << >> ]_vars
    /\ [](Running /\ state = PLAYING =>
            \A i \in 1..Len(walls) : ~(walls[i].x + 72 < -10))
    /\ [](Running /\ state # START =>
            score = (made.walls - Len(walls)) + Cardinality(C23_Scored(walls)))

\* the first wall of the round has been removed, the second is in the list
\* and scored, the third is in the list and not scored: the score is 2
C23_Witness ==
    /\ Running /\ state = PLAYING /\ last.op = "update"
    /\ made.walls = 3 /\ Len(walls) = 2 /\ score = 2
    /\ walls[1].scored /\ ~walls[2].scored

\* the frame that removed the first wall
C23_WitnessRemoved ==
    /\ Running /\ state = PLAYING /\ last.op = "update"
    /\ made.walls = 2 /\ Len(walls) = 1 /\ walls[1].id = 1 /\ score = 1

\* a flap input is taken in the step; every level of the table has a
\* gravity above 0
C24_Flap == last'.res = "flap" /\ flaps' = flaps + 1
C24_Gravity == \A i \in 1..Len(levels) : levels[i].gravity > 0

\* C24: under a table whose levels all have a gravity above 0, if from some
\* point on no flap input is taken, a round in PLAYING comes to its end
\* (GAME_OVER, or the end of the process).
C24_RoundEnds ==
    (<>[][~C24_Flap]_vars) =>
        ((Running /\ state = PLAYING /\ C24_Gravity) ~> ~(Running /\ state = PLAYING))

\* a round without any flap that hovered through the 50 frames of the grace
\* period, fell and ended on the floor
C24_Witness ==
    /\ Running /\ state = GAME_OVER /\ last.op = "update" /\ last.res = "floor"
    /\ C24_Gravity /\ flaps = 0 /\ made.frames = 51 /\ player.vel > 0

\* the best score highscore.json holds: what load_highscore returns of it
C25_Stored(f) == IF f.kind = "record" THEN f.high_score ELSE 0

\* the game-over screen's condition for "NEW HIGH SCORE!"
C25_NewHighScore == score >= high_score /\ score > 0

\* C25: in a running game high_score equals the best score in the store;
\* no step of a session lowers it, and a launch starts from the stored one;
\* in GAME_OVER it is at least the round's score, so that the screen's
\* condition holds exactly when the score is positive and equals it; and at
\* the end of a round that condition holds exactly when the round's
\* positive score beat or tied the record the round started with.
C25_BestInSync ==
    /\ [](Running => high_score = C25_Stored(hsfile))
    /\ [][ InSession => high_score' >= high_score ]_vars
    /\ [][ (proc # "running" /\ proc' = "running") =>
             high_score' = C25_Stored(hsfile) ]_vars
    /\ [](Running /\ state = GAME_OVER =>
            /\ high_score >= score
            /\ C25_NewHighScore <=> (score = high_score /\ score > 0))
    /\ [][ (InSession /\ state = PLAYING /\ state' = GAME_OVER) =>
             (C25_NewHighScore' <=> (score' > 0 /\ score' >= high_score)) ]_vars

\* a round of 2 points beat the record of 1: both bests are 2 and the screen
\* announces a new high score
C25_Witness ==
    /\ Running /\ state = GAME_OVER /\ last.op = "update"
    /\ score = 2 /\ high_score = 2 /\ hsfile = [kind |-> "record", high_score |-> 2]
    /\ C25_NewHighScore

\* a round of 2 points under a record of 3, and a round of 0 points without
\* any record: no new high score
C25_WitnessBelow ==
    /\ Running /\ state = GAME_OVER /\ score = 2 /\ high_score = 3
    /\ ~C25_NewHighScore
C25_WitnessZero ==
    /\ Running /\ state = GAME_OVER /\ score = 0 /\ high_score = 0
    /\ hsfile.kind # "record" /\ ~C25_NewHighScore

====
